---- MODULE Spec2Model ----
(***************************************************************************)
(* Model of the live-location relay.                                       *)
(*                                                                         *)
(*   ClientSpec : the browser-side session, class LiveLocation             *)
(*                (live-location-client/src/liveLocation.ts)               *)
(*   Spec       : the relay of location updates, classes WebSocketServer   *)
(*                and LiveLocationService (live-location-service/src/      *)
(*                websocket/server.ts), InMemoryOrderMappingStore and      *)
(*                KafkaProducer / KafkaConsumer (unnamed/part_000)         *)
(*   OrderSpec    : the order API of the service and of the store          *)
(*   RegistrySpec : the connection registry and the router                 *)
(*   SweepSpec    : the liveness sweep of the registry, as time passes     *)
(*   TopicSpec    : the router by topic and the subscriptions              *)
(*   AuthSpec     : connections under authentication                       *)
(***************************************************************************)
EXTENDS Integers, Sequences, FiniteSets, TLC

(***************************************************************************)
(* Bounds of the model                                                     *)
(***************************************************************************)
\* transports one client session may create (new WebSocket calls)
MaxSockets == 7
\* largest explicitly configured options.maxReconnectAttempts
MaxReconnectOption == 3
\* distinct device position samples
MaxSample == 2

(***************************************************************************)
(* Program constants                                                       *)
(***************************************************************************)
\* options.maxReconnectAttempts || 5
DefaultMaxReconnectAttempts == 5

(***************************************************************************)
(* State of the client session                                             *)
(***************************************************************************)
VARIABLES
    maxReconnectOption,   \* options.maxReconnectAttempts, as the caller gave it
    maxReconnectAttempts, \* this.maxReconnectAttempts
    clientId,             \* this.clientId
    hasGeolocation,       \* navigator.geolocation is available
    sock,                 \* readyState of every transport created so far
    ws,                   \* this.ws: index of the current transport
    timers,               \* pending reconnect setTimeout callbacks
    isConnected,          \* this.isConnected
    isTracking,           \* this.isTracking
    reconnectAttempts,    \* this.reconnectAttempts
    watchId,              \* this.watchId !== null
    intervalId,           \* this.intervalId !== null
    watches,              \* position watches active in navigator.geolocation
    intervals,            \* interval timers active
    lastPosition,         \* this.lastPosition (0 = null)
    cout,                 \* frames the last step wrote to a transport
    cret,                 \* the last step: the callback that ran, or what the
                          \* call returned to the caller
    closeReq,             \* the caller's closeConnection() calls so far
    everOpened            \* some transport of the session has opened

cvars == <<maxReconnectOption, maxReconnectAttempts, clientId, hasGeolocation, sock, ws, timers, isConnected,
           isTracking, reconnectAttempts, watchId, intervalId, watches,
           intervals, lastPosition, cout, cret, closeReq, everOpened>>

SockIds == 1..MaxSockets
ReadyStates == {"NONE", "CONNECTING", "OPEN", "CLOSING", "CLOSED"}

\* constructor: options.maxReconnectAttempts || 5 (an absent or zero option
\* gives the default)
ConfiguredMaxReconnect(opt) ==
    IF opt = 0 THEN DefaultMaxReconnectAttempts ELSE opt

\* options.clientId || `client_${Date.now()}_${random}`
ConfiguredClientId(opt) == IF opt = "" THEN "client_0_a" ELSE opt

\* constructor, which ends by calling initWebSocket()
ClientInit ==
    /\ \E opt \in 0..MaxReconnectOption :
           /\ maxReconnectOption = opt
           /\ maxReconnectAttempts = ConfiguredMaxReconnect(opt)
    /\ \E opt \in {"", "c1"} : clientId = ConfiguredClientId(opt)
    /\ hasGeolocation \in BOOLEAN
    /\ sock = [s \in SockIds |-> IF s = 1 THEN "CONNECTING" ELSE "NONE"]
    /\ ws = 1
    /\ timers = 0
    /\ isConnected = FALSE
    /\ isTracking = FALSE
    /\ reconnectAttempts = 0
    /\ watchId = FALSE
    /\ intervalId = FALSE
    /\ watches = 0
    /\ intervals = 0
    /\ lastPosition = 0
    /\ cout = <<>>
    /\ cret = "none"
    /\ closeReq = "none"
    /\ everOpened = FALSE

\* WebSocket.send of the browser on a transport in readyState st:
\* CONNECTING throws, OPEN writes, CLOSING and CLOSED discard silently
SendThrows(st) == st = "CONNECTING"
SendWritesWhileClosing(st) == st \in {"OPEN", "CLOSING"}
SendWrites(st) == st = "OPEN"

\* clientId: this.clientId of the frames written on transport s
TransportClientId(s) == IF s = 1 THEN clientId ELSE "client_1_b"
FrameClientId(s) == clientId

Frame(s, type, pos) ==
    [sock |-> s, type |-> type, clientId |-> FrameClientId(s), pos |-> pos]

\* the frames this.ws.send(frame) writes when the transports are in states sk
WsSend(sk, type, pos) ==
    IF SendWrites(sk[ws]) THEN <<Frame(ws, type, pos)>> ELSE <<>>

\* stopTracking(resetIsTracking): the watch and the interval it clears
WatchesLeaked == watches
WatchesAfterStop == IF watchId THEN watches - 1 ELSE watches
IntervalsLeaked == intervals
IntervalsAfterStop == IF intervalId THEN intervals - 1 ELSE intervals

\* startTracking(): the state it leaves, as a record
\* (isTracking, watchId, intervalId, watches, intervals)
StartTrackingResult ==
    IF ~hasGeolocation
    THEN [isTracking |-> isTracking, watchId |-> watchId,
          intervalId |-> intervalId, watches |-> watches,
          intervals |-> intervals]
    ELSE [isTracking |-> TRUE, watchId |-> TRUE, intervalId |-> TRUE,
          watches |-> WatchesAfterStop + 1,
          intervals |-> IntervalsAfterStop + 1]

ApplyTracking(r) ==
    /\ isTracking' = r.isTracking
    /\ watchId' = r.watchId
    /\ intervalId' = r.intervalId
    /\ watches' = r.watches
    /\ intervals' = r.intervals

\* ws.onopen of transport s
OnOpen(s) ==
    /\ sock[s] = "CONNECTING"
    /\ sock' = [sock EXCEPT ![s] = "OPEN"]
    /\ isConnected' = TRUE
    /\ reconnectAttempts' = 0
    /\ everOpened' = TRUE
    /\ cout' = WsSend(sock', "IDENTIFY", 0)
    /\ IF SendThrows(sock'[ws])
       THEN UNCHANGED <<isTracking, watchId, intervalId, watches, intervals>>
       ELSE IF isTracking
            THEN ApplyTracking(StartTrackingResult)
            ELSE UNCHANGED <<isTracking, watchId, intervalId, watches,
                             intervals>>
    /\ cret' = "onopen"
    /\ UNCHANGED <<maxReconnectOption, maxReconnectAttempts, clientId, hasGeolocation, ws, timers,
                   lastPosition, closeReq>>

\* ws.onclose: the test that guards the reconnect
ShouldReconnectOrEqual == reconnectAttempts <= maxReconnectAttempts
ShouldReconnect == reconnectAttempts < maxReconnectAttempts

\* ws.onclose: what the handler hands the caller, options.onClose?.(event),
\* whether or not the reconnect attempts are exhausted
CloseReport(exhausted) == "onclose"

\* ws.onclose: the reconnect timers pending once the handler has run
TimersAfterCloseAndError == IF ShouldReconnect THEN timers + 2 ELSE timers
TimersAfterClose == IF ShouldReconnect THEN timers + 1 ELSE timers

\* ws.onclose of transport s: the transport failed to open, was closed by
\* the peer or the network, or finished the close the client asked for
OnClose(s) ==
    /\ sock[s] \in {"CONNECTING", "OPEN", "CLOSING"}
    /\ sock' = [sock EXCEPT ![s] = "CLOSED"]
    /\ isConnected' = FALSE
    /\ reconnectAttempts' = IF ShouldReconnect THEN reconnectAttempts + 1
                            ELSE reconnectAttempts
    /\ timers' = TimersAfterClose
    /\ cout' = <<>>
    /\ cret' = CloseReport(~ShouldReconnect)
    /\ UNCHANGED <<maxReconnectOption, maxReconnectAttempts, clientId, hasGeolocation, ws, isTracking,
                   watchId, intervalId, watches, intervals, lastPosition,
                   closeReq, everOpened>>

\* the setTimeout callback of ws.onclose: initWebSocket()
ReconnectTimer ==
    /\ timers > 0
    /\ ws < MaxSockets
    /\ timers' = timers - 1
    /\ ws' = ws + 1
    /\ sock' = [sock EXCEPT ![ws + 1] = "CONNECTING"]
    /\ cout' = <<>>
    /\ cret' = "reconnect"
    /\ UNCHANGED <<maxReconnectOption, maxReconnectAttempts, clientId, hasGeolocation, isConnected,
                   isTracking, reconnectAttempts, watchId, intervalId,
                   watches, intervals, lastPosition, closeReq, everOpened>>

\* startTracking() called by the caller
StartTracking ==
    /\ ApplyTracking(StartTrackingResult)
    /\ cout' = <<>>
    /\ cret' = IF hasGeolocation THEN "this" ELSE "undefined"
    /\ UNCHANGED <<maxReconnectOption, maxReconnectAttempts, clientId, hasGeolocation, sock, ws, timers,
                   isConnected, reconnectAttempts, lastPosition, closeReq,
                   everOpened>>

\* stopTracking(resetIsTracking): this.lastPosition when it returns
LastPositionClearedWithWatch == IF watchId THEN 0 ELSE lastPosition
LastPositionAfterStop == lastPosition

\* stopTracking() called by the caller (resetIsTracking = true)
StopTracking ==
    /\ lastPosition' = LastPositionAfterStop
    /\ watches' = WatchesAfterStop
    /\ intervals' = IntervalsAfterStop
    /\ watchId' = FALSE
    /\ intervalId' = FALSE
    /\ isTracking' = FALSE
    /\ cout' = <<>>
    /\ cret' = "this"
    /\ UNCHANGED <<maxReconnectOption, maxReconnectAttempts, clientId, hasGeolocation, sock, ws,
                   timers, isConnected, reconnectAttempts, closeReq,
                   everOpened>>

\* the success callback of watchPosition
PositionCallback(p) ==
    /\ watches > 0
    /\ lastPosition' = p
    /\ cout' = <<>>
    /\ cret' = "position"
    /\ UNCHANGED <<maxReconnectOption, maxReconnectAttempts, clientId, hasGeolocation, sock, ws, timers,
                   isConnected, isTracking, reconnectAttempts, watchId,
                   intervalId, watches, intervals, closeReq, everOpened>>

\* the setInterval callback of startTracking
Tick ==
    /\ intervals > 0
    /\ cout' = IF lastPosition # 0 /\ isConnected
               THEN WsSend(sock, "LOCATION_UPDATE", lastPosition)
               ELSE <<>>
    /\ cret' = "tick"
    /\ UNCHANGED <<maxReconnectOption, maxReconnectAttempts, clientId, hasGeolocation, sock, ws, timers,
                   isConnected, isTracking, reconnectAttempts, watchId,
                   intervalId, watches, intervals, lastPosition, closeReq,
                   everOpened>>

\* sendMessage(message)
SendMessage ==
    /\ cout' = IF isConnected THEN WsSend(sock, "CUSTOM", 0) ELSE <<>>
    /\ cret' = IF isConnected /\ ~SendThrows(sock[ws]) THEN "true" ELSE "false"
    /\ UNCHANGED <<maxReconnectOption, maxReconnectAttempts, clientId, hasGeolocation, sock, ws, timers,
                   isConnected, isTracking, reconnectAttempts, watchId,
                   intervalId, watches, intervals, lastPosition, closeReq,
                   everOpened>>

\* WebSocket.close of the browser: starts the closing handshake of a
\* transport that is connecting or open, and does nothing otherwise
StateAfterClose(st) ==
    IF st \in {"CONNECTING", "OPEN"} THEN "CLOSING" ELSE st

\* closeConnection(): stopTracking(), then this.ws.close(1000, ...)
CloseConnection ==
    /\ watches' = WatchesAfterStop
    /\ intervals' = IntervalsAfterStop
    /\ watchId' = FALSE
    /\ intervalId' = FALSE
    /\ isTracking' = FALSE
    /\ sock' = [sock EXCEPT ![ws] = StateAfterClose(sock[ws])]
    /\ closeReq' = IF timers > 0 THEN "whilePending"
                   ELSE IF closeReq = "none" THEN "called" ELSE closeReq
    /\ cout' = <<>>
    /\ cret' = "this"
    /\ UNCHANGED <<maxReconnectOption, maxReconnectAttempts, clientId, hasGeolocation, ws, timers,
                   isConnected, reconnectAttempts, lastPosition, everOpened>>


(***************************************************************************)
(* Server side: identities, orders and envelopes                           *)
(***************************************************************************)
\* connections the server accepts in one run
MaxConns == 2
\* LOCATION_UPDATE frames the relay accepts in one run
MaxUpdates == 1

NULL == "null"
Drivers == {"D1", "D2"}
Customers == {"C1"}
Users == Drivers \cup Customers
Orders == {"O1"}
Statuses == {"ASSIGNED", "IN_PROGRESS", "COMPLETED", "CANCELLED"}
ConnIds == 1..MaxConns
UpdateIds == 1..MaxUpdates

\* role of the User the embedder's verifyToken returns for an identity
RoleOf(u) ==
    IF u \in Drivers THEN "DRIVER"
    ELSE IF u \in Customers THEN "CUSTOMER" ELSE "SYSTEM"

\* id of the anonymous user of a connection: anon_<time>_<random>
AnonId(s) ==
    CASE s = 1 -> "anon1" [] s = 2 -> "anon2" [] s = 3 -> "anon3"
      [] OTHER -> "anon4"

VARIABLES
    config,            \* LiveLocationServiceConfig: enableKafka, authentication
    now,               \* Date.now()
    mappings,          \* InMemoryOrderMappingStore.mappings, as its entries
    ssock,             \* server-side transports: readyState, handler phase, user
    connections,       \* WebSocketServer.connections, as its entries
    producerConnected, \* KafkaProducer.isConnected
    consumerRunning,   \* the KafkaConsumer of start() is consuming
    isRunning,         \* LiveLocationService.isRunning
    serverOpen,        \* the WebSocket server accepts connections
    pendingLoc,        \* handleLocationUpdate calls awaiting producer.send
    kafkaLog,          \* records of topic location-updates not yet consumed
    nextUpdate,        \* LOCATION_UPDATE frames accepted so far
    delivered,         \* LOCATION_UPDATE envelopes written, per update
    out,               \* envelopes the running task wrote, in order
    ret                \* the running task: its operation and what it returned

svars == <<config, now, mappings, ssock, connections, producerConnected,
           consumerRunning, isRunning, serverOpen, pendingLoc, kafkaLog,
           nextUpdate, delivered, out, ret>>

\* a message on its way through the codec: the object handed in, its wire
\* text, and what parseMessage made of the text
VARIABLE codec

vars == <<cvars, svars, codec>>

\* params.payload || {}
EmptyPayload == [empty |-> TRUE]

\* createMessage(params): the envelope, with the documented defaults; the
\* caller passes EmptyPayload for an absent payload
CreateMessage(type, senderId, senderRole, recipientId, orderId, payload) ==
    [type        |-> IF type = NULL THEN "SYSTEM" ELSE type,
     senderId    |-> IF senderId = NULL THEN "system" ELSE senderId,
     senderRole  |-> IF senderRole = NULL THEN "SYSTEM" ELSE senderRole,
     recipientId |-> recipientId,
     orderId     |-> orderId,
     payload     |-> payload,
     timestamp   |-> now]

\* createLocationUpdateMessage(senderId, senderRole, coordinates, orderId)
CreateLocationUpdateMessage(senderId, senderRole, coordinates, orderId) ==
    CreateMessage("LOCATION_UPDATE", senderId, senderRole, NULL, orderId,
                  [coordinates |-> coordinates, timestamp |-> now])

\* createOrderAssignmentMessage(orderId, customerId, driverId)
CreateOrderAssignmentMessage(orderId, customerId, driverId) ==
    CreateMessage("ORDER_ASSIGNMENT", "system", "SYSTEM", NULL, orderId,
                  [orderId |-> orderId, customerId |-> customerId,
                   driverId |-> driverId, status |-> "ASSIGNED",
                   timestamp |-> now])

(***************************************************************************)
(* Message codec: createMessage, JSON.stringify, parseMessage              *)
(***************************************************************************)
\* values of a property: the key is not there, undefined, null, or a string
Missing == "<missing>"
Undefined == "<undefined>"
Null == "<null>"

\* !v
Falsy(v) == v \in {Missing, Undefined, Null, ""}

\* obj.key
Read(v) == IF v = Missing THEN Undefined ELSE v

\* a payload: "is" tells whether it is an object, and the members hold
\* what the object has
NoPayload == [is |-> Missing, coordinates |-> Missing, metadata |-> Missing]
EmptyObject == [is |-> "object", coordinates |-> Missing, metadata |-> Missing]

NoMessage ==
    [type |-> Missing, senderId |-> Missing, senderRole |-> Missing,
     recipientId |-> Missing, recipientRole |-> Missing, orderId |-> Missing,
     payload |-> NoPayload, timestamp |-> Missing]

\* new Date().toISOString()
IsoString(n) == ToString(n)

\* createMessage(params) on an object literal
CreateMessageParams(params) ==
    [type          |-> IF Falsy(params.type) THEN "SYSTEM" ELSE params.type,
     senderId      |-> IF Falsy(params.senderId) THEN "system"
                       ELSE params.senderId,
     senderRole    |-> IF Falsy(params.senderRole) THEN "SYSTEM"
                       ELSE params.senderRole,
     recipientId   |-> Read(params.recipientId),
     recipientRole |-> Read(params.recipientRole),
     orderId       |-> Read(params.orderId),
     payload       |-> IF Falsy(params.payload.is) THEN EmptyObject
                       ELSE params.payload,
     timestamp     |-> IF Falsy(params.timestamp) THEN IsoString(now)
                       ELSE params.timestamp]

\* JSON.stringify leaves out the members whose value is undefined
DroppedOrNull(v) == v \in {Undefined, Null}
Dropped(v) == v = Undefined

StringifyValue(v) == IF Dropped(v) THEN Missing ELSE v

StringifyPayload(p) ==
    IF Dropped(p.is) THEN NoPayload
    ELSE IF p.is # "object" THEN p
    ELSE [is          |-> "object",
          coordinates |-> StringifyValue(p.coordinates),
          metadata    |-> StringifyValue(p.metadata)]

\* JSON.stringify(message): the text, as the JSON value it denotes
JsonStringify(obj) ==
    [syntax |-> "json", value |-> "object",
     obj |-> [type          |-> StringifyValue(obj.type),
              senderId      |-> StringifyValue(obj.senderId),
              senderRole    |-> StringifyValue(obj.senderRole),
              recipientId   |-> StringifyValue(obj.recipientId),
              recipientRole |-> StringifyValue(obj.recipientRole),
              orderId       |-> StringifyValue(obj.orderId),
              payload       |-> StringifyPayload(obj.payload),
              timestamp     |-> StringifyValue(obj.timestamp)]]

NoText == [syntax |-> "none", value |-> "none", obj |-> NoMessage]

\* texts that are not the encoding of an object: not JSON at all, and the
\* JSON values null and 5
RawTexts ==
    {[syntax |-> "garbage", value |-> "none", obj |-> NoMessage],
     [syntax |-> "json", value |-> "null", obj |-> NoMessage],
     [syntax |-> "json", value |-> "number", obj |-> NoMessage]}

\* parseMessage: !parsed.type || !parsed.senderId || !parsed.senderRole
MissingType(parsed) == Falsy(parsed.type)
MissingRequired(parsed) ==
    Falsy(parsed.type) \/ Falsy(parsed.senderId) \/ Falsy(parsed.senderRole)

ParseError == [ok |-> FALSE, message |-> NoMessage]

\* parseMessage(messageStr): JSON.parse throws on a text that is not JSON,
\* reading a property of null throws, a number has no properties
ParseMessage(text) ==
    IF text.syntax # "json" \/ text.value = "null" THEN ParseError
    ELSE LET parsed == IF text.value = "object" THEN text.obj ELSE NoMessage
         IN IF MissingRequired(parsed) THEN ParseError
            ELSE [ok |-> TRUE, message |-> parsed]

NoResult == [ok |-> FALSE, message |-> NoMessage]

\* the objects handed to createMessage or to JSON.stringify
Payloads ==
    [is : {Missing, Undefined, Null}, coordinates : {Missing},
     metadata : {Missing}]
    \cup [is : {"object"}, coordinates : {Missing, "1"},
          metadata : {Missing, Undefined, "m"}]

Objects ==
    [type : {Missing, "", "LOCATION_UPDATE", "PING"},
     senderId : {Missing, "D1"},
     senderRole : {Missing, "DRIVER"},
     recipientId : {Missing, Undefined, "C1"},
     recipientRole : {Missing, "CUSTOMER"},
     orderId : {Missing, "O1"},
     payload : Payloads,
     timestamp : {Missing, "t1"}]

CodecIdle ==
    codec = [step |-> "unused", obj |-> NoMessage, text |-> NoText,
             result |-> NoResult]

CodecInit ==
    \/ \E obj \in Objects :
         codec = [step |-> "input", obj |-> obj, text |-> NoText,
                  result |-> NoResult]
    \/ \E text \in RawTexts :
         codec = [step |-> "raw", obj |-> NoMessage, text |-> text,
                  result |-> NoResult]

\* createMessage(params)
CreateMessageCall ==
    /\ codec.step = "input"
    /\ codec' = [codec EXCEPT !.step = "created",
                              !.obj = CreateMessageParams(codec.obj)]

\* JSON.stringify(message), of an envelope of createMessage or of an object
\* a client built itself
Stringify ==
    /\ codec.step \in {"input", "created"}
    /\ codec' = [codec EXCEPT !.step = "encoded",
                              !.text = JsonStringify(codec.obj)]

\* parseMessage(data.toString())
ParseMessageCall ==
    /\ codec.step \in {"encoded", "raw"}
    /\ codec' = [codec EXCEPT
                   !.step = IF codec.step = "raw" THEN "decodedRaw"
                            ELSE "decoded",
                   !.result = ParseMessage(codec.text)]

(***************************************************************************)
(* Order Mapping Store                                                     *)
(***************************************************************************)
HasMapping(store, orderId) == \E m \in store : m.orderId = orderId

\* what spreading an absent mapping gives: no field
NoMapping == [orderId |-> NULL, customerId |-> NULL, driverId |-> NULL,
              status |-> NULL, createdAt |-> -1, updatedAt |-> -1]

\* getOrderMapping(orderId): the mapping (NoMapping stands for null)
GetOrderMapping(store, orderId) ==
    IF HasMapping(store, orderId)
    THEN CHOOSE m \in store : m.orderId = orderId
    ELSE NoMapping

GetOrdersByCustomer(store, customerId) ==
    {m \in store : m.customerId = customerId}

GetOrdersByDriver(store, driverId) ==
    {m \in store : m.driverId = driverId}

\* Map.set(orderId, entry)
MappingsAdd(store, orderId, m) == store \cup {m}
MappingsSet(store, orderId, m) ==
    {x \in store : x.orderId # orderId} \cup {m}

\* saveOrderMapping(mapping): upsert, updatedAt refreshed
SaveOrderMappingAsGiven(store, m) == MappingsSet(store, m.orderId, m)
SaveOrderMappingResult(store, m) ==
    MappingsSet(store, m.orderId, [m EXCEPT !.updatedAt = now])

\* updateOrderStatus of the store throws "Order mapping not found"
StoreUpdateNeverThrows(store, orderId) == FALSE
StoreUpdateThrows(store, orderId) == ~HasMapping(store, orderId)

\* updateOrderStatus(orderId, status) of the store past its check:
\* mappings.set(orderId, {...mapping, status, updatedAt})
StoreUpdateKeepingTerminal(store, orderId, status) ==
    LET m == GetOrderMapping(store, orderId) IN
    IF m.status \in {"COMPLETED", "CANCELLED"} THEN store
    ELSE MappingsSet(store, orderId,
                     [m EXCEPT !.status = status, !.updatedAt = now])
StoreUpdateOrderStatus(store, orderId, status) ==
    MappingsSet(store, orderId,
                [GetOrderMapping(store, orderId)
                    EXCEPT !.status = status, !.updatedAt = now])

(***************************************************************************)
(* Connection registry and router                                          *)
(***************************************************************************)
NoConnection == [userId |-> NULL, role |-> NULL, ws |-> 0, lastActivity |-> 0,
                 subscriptions |-> {}]

HasConnection(conns, userId) == \E c \in conns : c.userId = userId

\* connections.get(userId)
GetConnection(conns, userId) ==
    IF HasConnection(conns, userId)
    THEN CHOOSE c \in conns : c.userId = userId
    ELSE NoConnection

\* connections.set(user.id, connection)
ConnectionsAdd(conns, c) == conns \cup {c}
ConnectionsSet(conns, c) == {x \in conns : x.userId # c.userId} \cup {c}

\* connections.delete(userId)
ConnectionsDelete(conns, userId) == {x \in conns : x.userId # userId}

NoWrite == [ok |-> FALSE, writes |-> <<>>]

\* sendToUser(userId, message) on registry conns: what it returns and
\* writes; writeOk is false when JSON.stringify or ws.send throws
SendToUserUnchecked(conns, userId, env, writeOk) ==
    LET c == GetConnection(conns, userId) IN
    IF c.ws = 0 THEN NoWrite
    ELSE IF writeOk
         THEN [ok |-> TRUE, writes |-> <<[to |-> c.ws, env |-> env]>>]
         ELSE NoWrite
SendToUser(conns, userId, env, writeOk) ==
    LET c == GetConnection(conns, userId) IN
    IF c.ws = 0 \/ ssock[c.ws].state # "OPEN" THEN NoWrite
    ELSE IF writeOk
         THEN [ok |-> TRUE, writes |-> <<[to |-> c.ws, env |-> env]>>]
         ELSE NoWrite

\* the LOCATION_UPDATE envelopes among writes, counted per update
RECURSIVE AddDeliveries(_, _)
AddDeliveries(d, writes) ==
    IF writes = <<>> THEN d
    ELSE LET w == Head(writes) IN
         IF w.env.type # "LOCATION_UPDATE"
         THEN AddDeliveries(d, Tail(writes))
         ELSE AddDeliveries([d EXCEPT ![w.env.payload.coordinates] = @ + 1],
                            Tail(writes))

\* the task wrote writes
Wrote(writes) ==
    /\ out' = writes
    /\ delivered' = AddDeliveries(delivered, writes)

(***************************************************************************)
(* Server: initial state                                                   *)
(***************************************************************************)
NoSocket == [state |-> "NONE", phase |-> "none", user |-> NULL, role |-> NULL]

\* a transport that has closed and whose handlers have all run
DeadSocket == [state |-> "CLOSED", phase |-> "closed", user |-> NULL,
               role |-> NULL]

\* the running task: its operation, its arguments, the status the order
\* had when it began (was), the transports whose ws.send threw (failed), the
\* number it returned (count), whether the request carried a token and what
\* verifyToken answers for the request (token, verified), the close code it
\* passed to ws.close (code), the frame it was given and what it returned
NoFrame ==
    [type |-> NULL, wellFormed |-> FALSE, orderId |-> NULL,
     hasCoordinates |-> FALSE, action |-> NULL, listed |-> FALSE,
     topics |-> {}]

Ret(op, s, user, orderId, val) ==
    [op |-> op, sock |-> s, user |-> user, orderId |-> orderId,
     type |-> NULL, coordinates |-> 0, status |-> NULL, customer |-> NULL,
     was |-> NULL, topic |-> <<>>, failed |-> {}, count |-> 0,
     token |-> FALSE, verified |-> NULL, code |-> 0, frame |-> NoFrame,
     val |-> val]

\* no task is running: the event loop picks the next event
NoTask == Ret("idle", 0, NULL, NULL, NULL)
Idle == ret = NoTask

ServerStart ==
    /\ now = 0
    /\ mappings = {}
    /\ ssock = [s \in ConnIds |-> NoSocket]
    /\ connections = {}
    /\ producerConnected = FALSE
    /\ consumerRunning = FALSE
    /\ isRunning = FALSE
    /\ serverOpen = TRUE
    /\ pendingLoc = {}
    /\ kafkaLog = <<>>
    /\ nextUpdate = 0
    /\ delivered = [i \in UpdateIds |-> 0]
    /\ out = <<>>
    /\ ret = NoTask

\* new LiveLocationService(config): enableKafka with a kafka section, and
\* authentication.enabled with a verifyToken
ServerInit ==
    /\ config \in [kafka : BOOLEAN, auth : BOOLEAN]
    /\ ServerStart

ServerIdle ==
    /\ config = [kafka |-> FALSE, auth |-> FALSE]
    /\ ServerStart

\* the task ends: control returns to the event loop
EndOfTask ==
    /\ ~Idle
    /\ ret' = NoTask
    /\ out' = <<>>
    /\ UNCHANGED <<config, now, mappings, ssock, connections,
                   producerConnected, consumerRunning, isRunning, serverOpen,
                   pendingLoc, kafkaLog, nextUpdate, delivered>>

(***************************************************************************)
(* Server: connections                                                     *)
(***************************************************************************)
\* the first transport not yet used
IsNextSocket(s) ==
    /\ ssock[s].state = "NONE"
    /\ \A r \in ConnIds : r < s => ssock[r].state # "NONE"

\* ws.close(code, reason) of the ws library
ServerStateAfterClose(st) == IF st = "OPEN" THEN "CLOSING" ELSE st

\* the sets of orders in the order the store iterates them
RECURSIVE SeqOf(_)
SeqOf(S) ==
    IF S = {} THEN <<>>
    ELSE LET x == CHOOSE y \in S : TRUE IN <<x>> \o SeqOf(S \ {x})

OrderTopic(orderId) == <<"order", orderId>>
DriverTopic(driverId) == <<"driver", driverId>>

\* handleConnection: the SUBSCRIPTION envelopes sent to user u through
\* sendToUser on registry conns
RECURSIVE SubscriptionWrites(_, _, _, _)
SubscriptionWrites(conns, u, role, orders) ==
    IF orders = <<>> THEN <<>>
    ELSE LET m == Head(orders)
             topics == IF role = "CUSTOMER"
                       THEN <<OrderTopic(m.orderId), DriverTopic(m.driverId)>>
                       ELSE <<OrderTopic(m.orderId)>>
             env == CreateMessage("SUBSCRIPTION", "system", "SYSTEM", u, NULL,
                                  [action |-> "subscribe", topics |-> topics])
         IN SendToUser(conns, u, env, TRUE).writes
              \o SubscriptionWrites(conns, u, role, Tail(orders))

HandleConnectionWrites(conns, u, role) ==
    IF role = "CUSTOMER"
    THEN SubscriptionWrites(conns, u, role,
                            SeqOf(GetOrdersByCustomer(mappings, u)))
    ELSE IF role = "DRIVER"
    THEN SubscriptionWrites(conns, u, role,
                            SeqOf(GetOrdersByDriver(mappings, u)))
    ELSE <<>>

\* the welcome envelope, written with ws.send on the transport itself,
\* whose readyState is st
WelcomeWrites(s, st, u, role) ==
    IF st = "OPEN"
    THEN <<[to |-> s,
            env |-> CreateMessage("SYSTEM", "system", "SYSTEM", u, NULL,
                                  [message |-> "Connected successfully",
                                   userId |-> u, role |-> role])]>>
    ELSE <<>>

\* the connection handler from "Store the connection" on, for transport s
\* in readyState st with user u: the entry is stored, the message, close
\* and error handlers are attached, handleConnection runs and the welcome
\* is sent
Register(s, st, u, role, hasToken, verified) ==
    LET c == [userId |-> u, role |-> role, ws |-> s, lastActivity |-> now,
              subscriptions |-> {}]
        conns == ConnectionsSet(connections, c)
    IN /\ connections' = conns
       /\ ssock' = [ssock EXCEPT ![s] =
                      IF st = "CLOSED" THEN DeadSocket
                      ELSE [state |-> st, phase |-> "ready", user |-> u,
                            role |-> role]]
       /\ Wrote(WelcomeWrites(s, st, u, role)
                  \o HandleConnectionWrites(conns, u, role))
       /\ ret' = [Ret("connection", s, u, NULL, "registered")
                  EXCEPT !.token = hasToken, !.verified = verified]

\* server.on("connection"): a transport arrives. With an authentication
\* handler the handler awaits it; without one the user is anonymous
Connect(s) ==
    /\ serverOpen
    /\ IsNextSocket(s)
    /\ IF config.auth
       THEN /\ ssock' = [ssock EXCEPT ![s] = [state |-> "OPEN",
                                              phase |-> "auth",
                                              user |-> NULL, role |-> NULL]]
            /\ ret' = Ret("connection", s, NULL, NULL, "authenticating")
            /\ Wrote(<<>>)
            /\ UNCHANGED connections
       ELSE Register(s, "OPEN", AnonId(s), "SYSTEM", FALSE, NULL)
    /\ UNCHANGED <<config, now, mappings, producerConnected, consumerRunning,
                   isRunning, serverOpen, pendingLoc, kafkaLog, nextUpdate>>

\* authenticateRequest: null without a token, else what verifyToken gives
AuthenticateAlwaysVerifies(hasToken, verified) == verified
AuthenticateRequest(hasToken, verified) ==
    IF ~hasToken THEN NULL ELSE verified

\* ws.close(4001, "Authentication failed")
AuthFailureCode == 4001

\* the connection handler's test of what the authentication handler gave
NoIdentityNever(u) == FALSE
NoIdentity(u) == u = NULL

\* the authentication handler of transport s resolves; verified is what
\* the embedder's verifyToken answers for the request (null also when it
\* throws)
AuthDone(s, hasToken, verified) ==
    /\ ssock[s].phase = "auth"
    /\ LET u == AuthenticateRequest(hasToken, verified) IN
       IF NoIdentity(u)
       THEN /\ ssock' = [ssock EXCEPT
                           ![s].state = ServerStateAfterClose(@),
                           ![s].phase = "rejected"]
            /\ ret' = [Ret("connection", s, NULL, NULL, "rejected")
                       EXCEPT !.token = hasToken, !.verified = verified,
                              !.code = AuthFailureCode]
            /\ Wrote(<<>>)
            /\ UNCHANGED connections
       ELSE Register(s, ssock[s].state, u, RoleOf(u), hasToken, verified)
    /\ UNCHANGED <<config, now, mappings, producerConnected, consumerRunning,
                   isRunning, serverOpen, pendingLoc, kafkaLog, nextUpdate>>

\* the close event of transport s; the close handler exists once the
\* connection is registered
SocketClose(s) ==
    /\ ssock[s].state \in {"OPEN", "CLOSING"}
    /\ ssock' = [ssock EXCEPT ![s] = IF @.phase = "auth"
                                      THEN [@ EXCEPT !.state = "CLOSED"]
                                      ELSE DeadSocket]
    /\ connections' = IF ssock[s].phase = "ready"
                      THEN ConnectionsDelete(connections, ssock[s].user)
                      ELSE connections
    /\ Wrote(<<>>)
    /\ ret' = Ret("close", s, ssock[s].user, NULL, "closed")
    /\ UNCHANGED <<config, now, mappings, producerConnected, consumerRunning,
                   isRunning, serverOpen, pendingLoc, kafkaLog, nextUpdate>>


\* a frame arrives at transport s before its message handler is attached,
\* or after the connection handler returned without attaching one: the
\* "message" event has no listener
FrameWithoutHandler(s, f) ==
    /\ ssock[s].state \in {"OPEN", "CLOSING"}
    /\ ssock[s].phase \in {"auth", "rejected"}
    /\ Wrote(<<>>)
    /\ ret' = [Ret("message", s, NULL, NULL, "unhandled")
               EXCEPT !.type = f.type]
    /\ UNCHANGED <<config, now, mappings, ssock, connections,
                   producerConnected, consumerRunning, isRunning, serverOpen,
                   pendingLoc, kafkaLog, nextUpdate>>

(***************************************************************************)
(* Server: inbound frames and the relay                                    *)
(***************************************************************************)
Topics == {OrderTopic(o) : o \in Orders}

\* a frame a client sends. wellFormed: it is JSON carrying type, senderId
\* and senderRole
LocationFrames ==
    [type : {"LOCATION_UPDATE"}, wellFormed : BOOLEAN,
     orderId : Orders \cup {NULL}, hasCoordinates : BOOLEAN,
     action : {NULL}, listed : {FALSE}, topics : {{}}]

SubscriptionFrames ==
    [type : {"SUBSCRIPTION"}, wellFormed : {TRUE}, orderId : {NULL},
     hasCoordinates : {FALSE}, action : {"subscribe", "unsubscribe"},
     listed : {TRUE}, topics : {Topics}]

\* a SUBSCRIPTION frame without senderId or senderRole
MalformedSubscriptionFrames ==
    [type : {"SUBSCRIPTION"}, wellFormed : {FALSE}, orderId : {NULL},
     hasCoordinates : {FALSE}, action : {"subscribe"}, listed : {TRUE},
     topics : {Topics}]

\* parseMessage(data) does not throw
ParseMessageOk(f) == f.wellFormed

\* handleLocationUpdate: "Verify the driver is assigned to this order"
AuthorizedAnyDriver(m, u) == TRUE
Authorized(m, u) == m.driverId = u

\* handleLocationUpdate(message, user) gets as far as building locationData
AcceptedWithoutCoordinates(f, u, role) ==
    /\ role = "DRIVER"
    /\ f.orderId # NULL
    /\ HasMapping(mappings, f.orderId)
    /\ Authorized(GetOrderMapping(mappings, f.orderId), u)
Accepted(f, u, role) ==
    /\ role = "DRIVER"
    /\ f.orderId # NULL
    /\ f.hasCoordinates
    /\ HasMapping(mappings, f.orderId)
    /\ Authorized(GetOrderMapping(mappings, f.orderId), u)

\* handleSubscription(message, connection): the subscription set it leaves;
\* listed is Array.isArray(topics)
HandleSubscriptionAnyTopics(f, subs) ==
    IF f.action = "subscribe" THEN subs \cup f.topics
    ELSE IF f.action = "unsubscribe" THEN subs \ f.topics
    ELSE subs
HandleSubscription(f, subs) ==
    IF ~f.listed THEN subs
    ELSE IF f.action = "subscribe" THEN subs \cup f.topics
    ELSE IF f.action = "unsubscribe" THEN subs \ f.topics
    ELSE subs

\* the message handler's connection object is the registry entry as long as
\* the registry still refers to transport s
TouchConnectionsBeforeParse(s, u, f) ==
    {IF c.userId = u /\ c.ws = s
     THEN [c EXCEPT !.lastActivity = now,
                    !.subscriptions =
                        IF f.type = "SUBSCRIPTION"
                        THEN HandleSubscription(f, @) ELSE @]
     ELSE c : c \in connections}
TouchConnections(s, u, f) ==
    {IF c.userId = u /\ c.ws = s
     THEN [c EXCEPT !.lastActivity = now,
                    !.subscriptions =
                        IF ParseMessageOk(f) /\ f.type = "SUBSCRIPTION"
                        THEN HandleSubscription(f, @) ELSE @]
     ELSE c : c \in connections}

LocationData(u, role, orderId, coordinates, customerId) ==
    [userId |-> u, userRole |-> role, orderId |-> orderId,
     coordinates |-> coordinates, customerId |-> customerId]

\* ws.on("message") of transport s: lastActivity, parseMessage,
\* handleMessage (handleLocationUpdate up to the producer's send), and
\* handleSubscription
Message(s, f) ==
    LET u == ssock[s].user
        role == ssock[s].role
        handled == ParseMessageOk(f) /\ f.type = "LOCATION_UPDATE"
                     /\ Accepted(f, u, role)
        m == GetOrderMapping(mappings, f.orderId)
        coords == nextUpdate + 1
    IN
    /\ ssock[s].phase = "ready"
    /\ ssock[s].state \in {"OPEN", "CLOSING"}
    /\ handled => nextUpdate < MaxUpdates
    /\ connections' = TouchConnections(s, u, f)
    /\ nextUpdate' = IF handled THEN coords ELSE nextUpdate
    /\ IF ~handled
       THEN /\ Wrote(<<>>)
            /\ UNCHANGED pendingLoc
       ELSE IF config.kafka
       THEN /\ Wrote(<<>>)
            /\ pendingLoc' =
                 IF producerConnected
                 THEN pendingLoc \cup
                        {LocationData(u, role, f.orderId, coords, m.customerId)}
                 ELSE pendingLoc
       ELSE /\ Wrote(SendToUser(connections, m.customerId,
                       CreateLocationUpdateMessage(u, role, coords, f.orderId),
                       TRUE).writes)
            /\ UNCHANGED pendingLoc
    /\ ret' = [Ret("message", s, u, f.orderId,
                   IF ~ParseMessageOk(f) THEN "invalid"
                   ELSE IF ~handled THEN "ignored"
                   ELSE IF ~config.kafka THEN "forwarded"
                   ELSE IF producerConnected THEN "publishing"
                   ELSE "publishFailed")
               EXCEPT !.type = f.type,
                      !.frame = f,
                      !.coordinates = IF f.hasCoordinates THEN coords ELSE 0,
                      !.customer = IF handled THEN m.customerId ELSE NULL]
    /\ UNCHANGED <<config, now, mappings, ssock, producerConnected,
                   consumerRunning, isRunning, serverOpen, kafkaLog>>

\* kafkaProducer.sendMessage(locationData, "location-updates", orderId)
\* settles for the pending update p: on success the record is in the topic
\* and handleLocationUpdate goes on to forward; on failure its catch logs
KafkaSendDone(p, ok) ==
    /\ p \in pendingLoc
    /\ pendingLoc' = pendingLoc \ {p}
    /\ kafkaLog' = IF ok THEN Append(kafkaLog, p) ELSE kafkaLog
    /\ Wrote(IF ok
             THEN SendToUser(connections, p.customerId,
                    CreateLocationUpdateMessage(p.userId, p.userRole,
                                                p.coordinates, p.orderId),
                    TRUE).writes
             ELSE <<>>)
    /\ ret' = [Ret("producerSend", 0, p.userId, p.orderId,
                   IF ok THEN "forwarded" ELSE "publishFailed")
               EXCEPT !.type = "LOCATION_UPDATE",
                      !.coordinates = p.coordinates,
                      !.customer = p.customerId]
    /\ UNCHANGED <<config, now, mappings, ssock, connections,
                   producerConnected, consumerRunning, isRunning, serverOpen,
                   nextUpdate>>

\* handleKafkaMessage("location-updates", locationData): the consumer
\* started by start() hands over the next record of the topic
HandleKafkaMessage ==
    /\ consumerRunning
    /\ kafkaLog # <<>>
    /\ LET d == Head(kafkaLog)
           m == GetOrderMapping(mappings, d.orderId)
       IN /\ kafkaLog' = Tail(kafkaLog)
          /\ Wrote(IF ~HasMapping(mappings, d.orderId) THEN <<>>
                   ELSE SendToUser(connections, m.customerId,
                          CreateLocationUpdateMessage(d.userId, d.userRole,
                                                      d.coordinates, d.orderId),
                          TRUE).writes)
          /\ ret' = [Ret("handleKafkaMessage", 0, d.userId, d.orderId,
                         IF HasMapping(mappings, d.orderId)
                         THEN "forwarded" ELSE "ignored")
                     EXCEPT !.type = "LOCATION_UPDATE",
                            !.coordinates = d.coordinates]
    /\ UNCHANGED <<config, now, mappings, ssock, connections,
                   producerConnected, consumerRunning, isRunning, serverOpen,
                   pendingLoc, nextUpdate>>


(***************************************************************************)
(* Server: the service API and the store API                               *)
(***************************************************************************)
\* the producer's sendMessage throws: not connected, or the broker fails
PublishThrows(brokerOk) == ~producerConnected \/ ~brokerOk

\* assignDriverToOrder(orderId, customerId, driverId)
AssignDriverToOrder(o, c, d, brokerOk) ==
    LET env == CreateOrderAssignmentMessage(o, c, d) IN
    /\ (config.kafka /\ producerConnected) \/ brokerOk
    /\ mappings' = SaveOrderMappingResult(mappings,
                     [orderId |-> o, customerId |-> c, driverId |-> d,
                      status |-> "ASSIGNED", createdAt |-> now,
                      updatedAt |-> now])
    /\ Wrote(SendToUser(connections, c, env, TRUE).writes
               \o SendToUser(connections, d, env, TRUE).writes)
    /\ ret' = [Ret("assignDriverToOrder", 0, d, o,
                   IF config.kafka /\ PublishThrows(brokerOk)
                   THEN "error" ELSE "ok")
               EXCEPT !.status = "ASSIGNED", !.customer = c,
                      !.was = GetOrderMapping(mappings, o).status]
    /\ UNCHANGED <<config, now, ssock, connections, producerConnected,
                   consumerRunning, isRunning, serverOpen, pendingLoc,
                   kafkaLog, nextUpdate>>

\* updateOrderStatus(orderId, status, updatedBy) of the service
UpdateOrderStatus(o, st) ==
    LET store == StoreUpdateOrderStatus(mappings, o, st)
        m == GetOrderMapping(store, o)
        env == CreateMessage("SYSTEM", "admin", "SYSTEM", NULL, o,
                             [status |-> st, timestamp |-> now])
        found == ~StoreUpdateThrows(mappings, o)
    IN
    /\ mappings' = IF found THEN store ELSE mappings
    /\ Wrote(IF found /\ HasMapping(store, o)
             THEN SendToUser(connections, m.customerId, env, TRUE).writes
                    \o SendToUser(connections, m.driverId, env, TRUE).writes
             ELSE <<>>)
    /\ ret' = [Ret("updateOrderStatus", 0, NULL, o,
                   IF found /\ HasMapping(store, o) THEN "ok" ELSE "NotFound")
               EXCEPT !.status = st,
                      !.was = GetOrderMapping(mappings, o).status]
    /\ UNCHANGED <<config, now, ssock, connections, producerConnected,
                   consumerRunning, isRunning, serverOpen, pendingLoc,
                   kafkaLog, nextUpdate>>

\* updateOrderStatus(orderId, status) called on the store itself
StoreUpdate(o, st) ==
    LET found == ~StoreUpdateThrows(mappings, o) IN
    /\ mappings' = IF found THEN StoreUpdateOrderStatus(mappings, o, st)
                   ELSE mappings
    /\ Wrote(<<>>)
    /\ ret' = [Ret("store.updateOrderStatus", 0, NULL, o,
                   IF found THEN "ok" ELSE "NotFound")
               EXCEPT !.status = st,
                      !.was = GetOrderMapping(mappings, o).status]
    /\ UNCHANGED <<config, now, ssock, connections, producerConnected,
                   consumerRunning, isRunning, serverOpen, pendingLoc,
                   kafkaLog, nextUpdate>>

\* saveOrderMapping(mapping) called on the store itself, with the times the
\* caller wrote into the mapping
SaveOrderMapping(o, c, d, st, at) ==
    /\ mappings' = SaveOrderMappingResult(mappings,
                     [orderId |-> o, customerId |-> c, driverId |-> d,
                      status |-> st, createdAt |-> at, updatedAt |-> at])
    /\ Wrote(<<>>)
    /\ ret' = [Ret("store.saveOrderMapping", 0, d, o, "ok")
               EXCEPT !.status = st, !.customer = c,
                      !.was = GetOrderMapping(mappings, o).status]
    /\ UNCHANGED <<config, now, ssock, connections, producerConnected,
                   consumerRunning, isRunning, serverOpen, pendingLoc,
                   kafkaLog, nextUpdate>>

\* deleteOrderMapping(orderId) called on the store itself
DeleteOrderMapping(o) ==
    /\ mappings' = {m \in mappings : m.orderId # o}
    /\ Wrote(<<>>)
    /\ ret' = Ret("store.deleteOrderMapping", 0, NULL, o,
                  IF HasMapping(mappings, o) THEN "true" ELSE "false")
    /\ UNCHANGED <<config, now, ssock, connections, producerConnected,
                   consumerRunning, isRunning, serverOpen, pendingLoc,
                   kafkaLog, nextUpdate>>

\* sendToUser(userId, message) called by the embedder
SendToUserCall(u, writeOk) ==
    LET env == CreateMessage("SYSTEM", "embedder", "SYSTEM", u, NULL, EmptyPayload)
        r == SendToUser(connections, u, env, writeOk)
    IN
    /\ Wrote(r.writes)
    /\ ret' = [Ret("sendToUser", 0, u, NULL,
                   IF r.ok THEN "true" ELSE "false")
               EXCEPT !.status = IF writeOk THEN "written" ELSE "threw"]
    /\ UNCHANGED <<config, now, mappings, ssock, connections,
                   producerConnected, consumerRunning, isRunning, serverOpen,
                   pendingLoc, kafkaLog, nextUpdate>>

\* wsServer.close(): every registered transport is closed
CloseAll ==
    [s \in ConnIds |->
        IF \E c \in connections : c.ws = s
        THEN [ssock[s] EXCEPT !.state = ServerStateAfterClose(@)]
        ELSE ssock[s]]

\* stop(): consumer and producer disconnect, the WebSocket server closes
StopEffect ==
    /\ consumerRunning' = FALSE
    /\ producerConnected' = FALSE
    /\ ssock' = CloseAll
    /\ serverOpen' = FALSE
    /\ isRunning' = FALSE

\* start(): connects the producer and starts the consumer when Kafka is
\* enabled; a failure to connect calls stop() and is thrown
Start(brokerOk) ==
    /\ ~isRunning
    /\ IF config.kafka /\ ~brokerOk
       THEN /\ StopEffect
            /\ ret' = Ret("start", 0, NULL, NULL, "error")
       ELSE /\ producerConnected' = config.kafka
            /\ consumerRunning' = config.kafka
            /\ isRunning' = TRUE
            /\ ret' = Ret("start", 0, NULL, NULL, "ok")
            /\ UNCHANGED <<ssock, serverOpen>>
    /\ Wrote(<<>>)
    /\ UNCHANGED <<config, now, mappings, connections, pendingLoc, kafkaLog,
                   nextUpdate>>

\* stop()
Stop ==
    /\ StopEffect
    /\ ret' = Ret("stop", 0, NULL, NULL, "ok")
    /\ Wrote(<<>>)
    /\ UNCHANGED <<config, now, mappings, connections, pendingLoc, kafkaLog,
                   nextUpdate>>

(***************************************************************************)
(* Server: the liveness sweep                                              *)
(***************************************************************************)
\* minutes of Date.now() one run covers
MaxTime == 3

\* the staleness threshold 2 * 60 * 1000 ms, in minutes
StaleMinutes == 2

\* a minute passes
ClockTick ==
    /\ now < MaxTime
    /\ now' = now + 1
    /\ UNCHANGED <<config, mappings, ssock, connections, producerConnected,
                   consumerRunning, isRunning, serverOpen, pendingLoc,
                   kafkaLog, nextUpdate, delivered, out, ret>>

\* connections.forEach visits the entries of S in the Map's insertion order;
\* the registry is kept as a set, so every order is allowed
IterationOrders(S) ==
    {q \in [1..Cardinality(S) -> S] :
        \A i, j \in 1..Cardinality(S) : q[i] = q[j] => i = j}

\* pingConnections: "Check if connection is stale"
StaleOrJustDue(c) == now - c.lastActivity >= StaleMinutes
Stale(c) == now - c.lastActivity > StaleMinutes

\* ws.ping() on transport s
Ping(s) == [to |-> s, env |-> [type |-> "ping"]]

\* pingConnections(): the callback of the pingInterval timer, which runs
\* until close() clears it. Stale entries are closed and deleted, the others
\* are pinged when their transport is open
PingConnections(q) ==
    LET stale == {c \in connections : Stale(c)}
        alive == {c \in connections : ~Stale(c) /\ ssock[c.ws].state = "OPEN"}
    IN
    /\ serverOpen
    /\ q \in IterationOrders(alive)
    /\ connections' = connections \ stale
    /\ ssock' = [s \in ConnIds |->
                   IF \E c \in stale : c.ws = s
                   THEN [ssock[s] EXCEPT !.state = ServerStateAfterClose(@)]
                   ELSE ssock[s]]
    /\ Wrote([i \in 1..Cardinality(alive) |-> Ping(q[i].ws)])
    /\ ret' = Ret("pingConnections", 0, NULL, NULL,
                  IF stale = {} THEN "none" ELSE "evicted")
    /\ UNCHANGED <<config, now, mappings, producerConnected, consumerRunning,
                   isRunning, serverOpen, pendingLoc, kafkaLog, nextUpdate>>

\* the pong that answers a ping arrives on transport s: no "pong" listener
\* is attached, the registry stays as it is
PongTouches(s) ==
    {IF c.ws = s THEN [c EXCEPT !.lastActivity = now] ELSE c :
        c \in connections}
PongConnections(s) == connections

Pong(s) ==
    /\ ssock[s].phase = "ready"
    /\ ssock[s].state = "OPEN"
    /\ connections' = PongConnections(s)
    /\ Wrote(<<>>)
    /\ ret' = Ret("pong", s, ssock[s].user, NULL, "unhandled")
    /\ UNCHANGED <<config, now, mappings, ssock, producerConnected,
                   consumerRunning, isRunning, serverOpen, pendingLoc,
                   kafkaLog, nextUpdate>>

(***************************************************************************)
(* Server: the router by topic                                             *)
(***************************************************************************)
AllTopics == {OrderTopic(o) : o \in Orders} \cup {DriverTopic(d) : d \in Drivers}

\* sendToTopic(topic, message) from entry i of the iteration q on: the
\* envelopes written, sentCount, and whether a ws.send threw, which ends
\* the forEach and the call; fails are the transports whose ws.send throws
RECURSIVE SendToTopic(_, _, _, _, _)
SendToTopic(q, i, topic, env, fails) ==
    IF i > Cardinality(DOMAIN q)
    THEN [writes |-> <<>>, count |-> 0, raised |-> FALSE]
    ELSE LET c == q[i]
             rest == SendToTopic(q, i + 1, topic, env, fails)
         IN IF topic \in c.subscriptions /\ ssock[c.ws].state = "OPEN"
            THEN IF c.ws \in fails
                 THEN [writes |-> <<>>, count |-> 0, raised |-> TRUE]
                 ELSE [writes |-> <<[to |-> c.ws, env |-> env]>> \o rest.writes,
                       count |-> rest.count + 1,
                       raised |-> rest.raised]
            ELSE rest

\* the transports sendToTopic(topic, ...) calls ws.send on
Subscribers(topic) ==
    {c.ws : c \in {x \in connections :
                      topic \in x.subscriptions /\ ssock[x.ws].state = "OPEN"}}

\* sendToTopic(topic, message) called by the embedder
SendToTopicCall(topic, q, fails) ==
    LET env == CreateMessage("SYSTEM", "embedder", "SYSTEM", NULL, NULL,
                             EmptyPayload)
        r == SendToTopic(q, 1, topic, env, fails)
    IN
    /\ q \in IterationOrders(connections)
    /\ fails \subseteq Subscribers(topic)
    /\ Wrote(r.writes)
    /\ ret' = [Ret("sendToTopic", 0, NULL, NULL,
                   IF r.raised THEN "raised" ELSE "returned")
               EXCEPT !.topic = topic, !.failed = fails,
                      !.count = IF r.raised THEN 0 ELSE r.count]
    /\ UNCHANGED <<config, now, mappings, ssock, connections,
                   producerConnected, consumerRunning, isRunning, serverOpen,
                   pendingLoc, kafkaLog, nextUpdate>>

\* the relay: authenticated connections, assignments and location updates
ServerNext ==
    \/ Idle /\ (\E s \in ConnIds : Connect(s)) /\ UNCHANGED <<cvars, codec>>
    \/ Idle /\ (\E s \in ConnIds, u \in Users :
                  AuthDone(s, TRUE, u)) /\ UNCHANGED <<cvars, codec>>
    \/ Idle /\ (\E s \in ConnIds : SocketClose(s)) /\ UNCHANGED <<cvars, codec>>
    \/ Idle /\ (\E s \in ConnIds, f \in LocationFrames : Message(s, f))
            /\ UNCHANGED <<cvars, codec>>
    \/ Idle /\ (\E p \in pendingLoc, ok \in BOOLEAN : KafkaSendDone(p, ok))
            /\ UNCHANGED <<cvars, codec>>
    \/ Idle /\ HandleKafkaMessage /\ UNCHANGED <<cvars, codec>>
    \/ Idle /\ (\E o \in Orders, c \in Customers, d \in Drivers, ok \in BOOLEAN :
                  AssignDriverToOrder(o, c, d, ok)) /\ UNCHANGED <<cvars, codec>>
    \/ Idle /\ (\E o \in Orders : DeleteOrderMapping(o)) /\ UNCHANGED <<cvars, codec>>
    \/ Idle /\ Start(TRUE) /\ UNCHANGED <<cvars, codec>>
    \/ EndOfTask /\ UNCHANGED <<cvars, codec>>

\* the order API of the service and the store, with connections to notify
OrderNext ==
    \/ Idle /\ (\E s \in ConnIds : Connect(s)) /\ UNCHANGED <<cvars, codec>>
    \/ Idle /\ (\E s \in ConnIds, u \in Users \cup {NULL} :
                  AuthDone(s, TRUE, u)) /\ UNCHANGED <<cvars, codec>>
    \/ Idle /\ (\E s \in ConnIds : SocketClose(s)) /\ UNCHANGED <<cvars, codec>>
    \/ Idle /\ (\E o \in Orders, c \in Customers, d \in Drivers, ok \in BOOLEAN :
                  AssignDriverToOrder(o, c, d, ok)) /\ UNCHANGED <<cvars, codec>>
    \/ Idle /\ (\E o \in Orders, st \in Statuses : UpdateOrderStatus(o, st))
            /\ UNCHANGED <<cvars, codec>>
    \/ Idle /\ (\E o \in Orders, st \in Statuses : StoreUpdate(o, st))
            /\ UNCHANGED <<cvars, codec>>
    \/ Idle /\ (\E o \in Orders, c \in Customers, d \in Drivers, st \in Statuses :
                  SaveOrderMapping(o, c, d, st, now)) /\ UNCHANGED <<cvars, codec>>
    \/ Idle /\ (\E o \in Orders : DeleteOrderMapping(o)) /\ UNCHANGED <<cvars, codec>>
    \/ Idle /\ Start(TRUE) /\ UNCHANGED <<cvars, codec>>
    \/ EndOfTask /\ UNCHANGED <<cvars, codec>>

\* the connection registry and the router
RegistryNext ==
    \/ Idle /\ (\E s \in ConnIds : Connect(s)) /\ UNCHANGED <<cvars, codec>>
    \/ Idle /\ (\E s \in ConnIds, u \in Users \cup {NULL} :
                  AuthDone(s, TRUE, u)) /\ UNCHANGED <<cvars, codec>>
    \/ Idle /\ (\E s \in ConnIds : SocketClose(s)) /\ UNCHANGED <<cvars, codec>>
    \/ Idle /\ (\E s \in ConnIds, f \in LocationFrames \cup SubscriptionFrames :
                  Message(s, f)) /\ UNCHANGED <<cvars, codec>>
    \/ Idle /\ (\E u \in Users, ok \in BOOLEAN : SendToUserCall(u, ok))
            /\ UNCHANGED <<cvars, codec>>
    \/ Idle /\ (\E ok \in BOOLEAN : Start(ok)) /\ UNCHANGED <<cvars, codec>>
    \/ Idle /\ Stop /\ UNCHANGED <<cvars, codec>>
    \/ EndOfTask /\ UNCHANGED <<cvars, codec>>

ClientNext ==
    \/ \E s \in SockIds : OnOpen(s) /\ UNCHANGED <<svars, codec>>
    \/ \E s \in SockIds : OnClose(s) /\ UNCHANGED <<svars, codec>>
    \/ ReconnectTimer /\ UNCHANGED <<svars, codec>>
    \/ StartTracking /\ UNCHANGED <<svars, codec>>
    \/ StopTracking /\ UNCHANGED <<svars, codec>>
    \/ \E p \in 1..MaxSample : PositionCallback(p) /\ UNCHANGED <<svars, codec>>
    \/ Tick /\ UNCHANGED <<svars, codec>>
    \/ SendMessage /\ UNCHANGED <<svars, codec>>
    \/ CloseConnection /\ UNCHANGED <<svars, codec>>

ClientIdle ==
    /\ maxReconnectOption = DefaultMaxReconnectAttempts
    /\ maxReconnectAttempts = DefaultMaxReconnectAttempts
    /\ clientId = "c1"
    /\ hasGeolocation = TRUE
    /\ sock = [s \in SockIds |-> IF s = 1 THEN "CONNECTING" ELSE "NONE"]
    /\ ws = 1
    /\ timers = 0
    /\ isConnected = FALSE
    /\ isTracking = FALSE
    /\ reconnectAttempts = 0
    /\ watchId = FALSE
    /\ intervalId = FALSE
    /\ watches = 0
    /\ intervals = 0
    /\ lastPosition = 0
    /\ cout = <<>>
    /\ cret = "none"
    /\ closeReq = "none"
    /\ everOpened = FALSE

\* the registry under the liveness sweep, as time passes
SweepNext ==
    \/ Idle /\ (\E s \in ConnIds : Connect(s)) /\ UNCHANGED <<cvars, codec>>
    \/ Idle /\ (\E s \in ConnIds, u \in Users : AuthDone(s, TRUE, u))
            /\ UNCHANGED <<cvars, codec>>
    \/ Idle /\ (\E s \in ConnIds : SocketClose(s)) /\ UNCHANGED <<cvars, codec>>
    \/ Idle /\ (\E s \in ConnIds,
                   f \in SubscriptionFrames \cup MalformedSubscriptionFrames :
                  Message(s, f)) /\ UNCHANGED <<cvars, codec>>
    \/ Idle /\ (\E s \in ConnIds : Pong(s)) /\ UNCHANGED <<cvars, codec>>
    \/ Idle /\ ClockTick /\ UNCHANGED <<cvars, codec>>
    \/ Idle /\ (\E q \in UNION {IterationOrders(S) : S \in SUBSET connections} :
                  PingConnections(q)) /\ UNCHANGED <<cvars, codec>>
    \/ EndOfTask /\ UNCHANGED <<cvars, codec>>

\* the router by topic: connections, their subscriptions and their orders
TopicNext ==
    \/ Idle /\ (\E s \in ConnIds : Connect(s)) /\ UNCHANGED <<cvars, codec>>
    \/ Idle /\ (\E s \in ConnIds, u \in Users : AuthDone(s, TRUE, u))
            /\ UNCHANGED <<cvars, codec>>
    \/ Idle /\ (\E s \in ConnIds : SocketClose(s)) /\ UNCHANGED <<cvars, codec>>
    \/ Idle /\ (\E s \in ConnIds, f \in SubscriptionFrames : Message(s, f))
            /\ UNCHANGED <<cvars, codec>>
    \/ Idle /\ (\E o \in Orders, c \in Customers, d \in Drivers :
                  AssignDriverToOrder(o, c, d, TRUE)) /\ UNCHANGED <<cvars, codec>>
    \/ Idle /\ (\E topic \in AllTopics, q \in IterationOrders(connections),
                   fails \in SUBSET ConnIds :
                  SendToTopicCall(topic, q, fails)) /\ UNCHANGED <<cvars, codec>>
    \/ EndOfTask /\ UNCHANGED <<cvars, codec>>

\* connections under authentication: requests with and without a token,
\* and frames on transports with and without a message handler
AuthNext ==
    \/ Idle /\ (\E s \in ConnIds : Connect(s)) /\ UNCHANGED <<cvars, codec>>
    \/ Idle /\ (\E s \in ConnIds, hasToken \in BOOLEAN, u \in Users \cup {NULL} :
                  AuthDone(s, hasToken, u)) /\ UNCHANGED <<cvars, codec>>
    \/ Idle /\ (\E s \in ConnIds : SocketClose(s)) /\ UNCHANGED <<cvars, codec>>
    \/ Idle /\ (\E s \in ConnIds, f \in SubscriptionFrames :
                  FrameWithoutHandler(s, f)) /\ UNCHANGED <<cvars, codec>>
    \/ Idle /\ (\E s \in ConnIds, f \in SubscriptionFrames : Message(s, f))
            /\ UNCHANGED <<cvars, codec>>
    \/ Idle /\ (\E u \in Users : SendToUserCall(u, TRUE)) /\ UNCHANGED <<cvars, codec>>
    \/ Idle /\ (\E o \in Orders, c \in Customers, d \in Drivers :
                  AssignDriverToOrder(o, c, d, TRUE)) /\ UNCHANGED <<cvars, codec>>
    \/ EndOfTask /\ UNCHANGED <<cvars, codec>>

\* the client session on its own, next to a server nobody uses
SessionInit == ClientInit /\ ServerIdle /\ CodecIdle

ClientSpec == SessionInit /\ [][ClientNext]_vars

\* the service with an authentication handler, with and without Kafka,
\* next to a client nobody uses
RelayInit ==
    /\ config \in [kafka : BOOLEAN, auth : {TRUE}]
    /\ ServerStart

Init == RelayInit /\ ClientIdle /\ CodecIdle

\* the relay
Spec == Init /\ [][ServerNext]_vars

\* the order API
OrderSpec == Init /\ [][OrderNext]_vars

\* the registry and the router, in every configuration
RegistryInit == ServerInit /\ ClientIdle /\ CodecIdle

RegistrySpec == RegistryInit /\ [][RegistryNext]_vars

(***************************************************************************)
(* Properties of the client session (ClientSpec)                           *)
(***************************************************************************)
\* C1: once the caller has invoked closeConnection() (no reconnect pending
\* at the time of the call), the close of the transport schedules no
\* reconnect and no new transport is opened, whatever reconnectAttempts is
C1_CloseNeverReconnects ==
    [][closeReq = "called" => (timers' = timers /\ ws' = ws)]_vars

\* C2 as stated: with maxReconnectAttempts = 3 and no open ever succeeding,
\* the session opens at most 3 transports
C2_NoFourthOpen ==
    (maxReconnectAttempts = 3 /\ ~everOpened) => ws <= 3

\* C2: with maxReconnectAttempts = 3 and no open ever succeeding, the session
\* opens at most 4 transports (the initial one and 3 reconnects); when the
\* 4th has failed the session is closed for good: not connected, no
\* reconnect pending, reconnectAttempts = 3
C2_NoFifthOpen ==
    (maxReconnectAttempts = 3 /\ ~everOpened) =>
        /\ ws <= 4
        /\ (ws = 4 /\ sock[4] = "CLOSED") =>
               (timers = 0 /\ ~isConnected /\ reconnectAttempts = 3)

\* the 4th consecutive open has failed and the session has given up
C2_Exhausted ==
    /\ maxReconnectAttempts = 3
    /\ ~everOpened
    /\ closeReq = "none"
    /\ ws = 4
    /\ sock[4] = "CLOSED"
    /\ timers = 0

\* C3: once closeConnection() was called while a reconnect was pending, no
\* new transport is opened
C3_PendingReconnectCancelled ==
    [][closeReq = "whilePending" => ws' = ws]_vars

(***************************************************************************)
(* Properties of the relay (Spec)                                          *)
(***************************************************************************)
\* user u has a registry entry whose transport is open
HasOpenConnection(u) ==
    /\ HasConnection(connections, u)
    /\ ssock[GetConnection(connections, u).ws].state = "OPEN"

\* the step handles a LOCATION_UPDATE frame for an order whose mapping names
\* another driver than the DRIVER connection that sent it
UnassignedDriverUpdate ==
    /\ ret = NoTask
    /\ ret'.op = "message"
    /\ ret'.type = "LOCATION_UPDATE"
    /\ RoleOf(ret'.user) = "DRIVER"
    /\ HasMapping(mappings, ret'.orderId)
    /\ GetOrderMapping(mappings, ret'.orderId).driverId # ret'.user

\* C4: a LOCATION_UPDATE for order O from a DRIVER connection that is not the
\* driver of O's mapping writes no envelope to anyone, hands nothing to the
\* producer or the topic, and leaves the Order Mapping Store unchanged
C4_UnassignedDriverIgnored ==
    [][UnassignedDriverUpdate =>
         /\ out' = <<>>
         /\ delivered' = delivered
         /\ pendingLoc' = pendingLoc
         /\ kafkaLog' = kafkaLog
         /\ mappings' = mappings]_vars

\* a well-formed update with coordinates from D2 for an order assigned to
\* D1 has been handled while the order's customer had an open connection
C4_UnassignedDriverSent ==
    /\ ret.op = "message"
    /\ ret.type = "LOCATION_UPDATE"
    /\ ret.val = "ignored"
    /\ ret.user \in Drivers
    /\ ret.coordinates # 0
    /\ HasMapping(mappings, ret.orderId)
    /\ GetOrderMapping(mappings, ret.orderId).driverId \in Drivers \ {ret.user}
    /\ HasOpenConnection(GetOrderMapping(mappings, ret.orderId).customerId)

\* C5: in every configuration, no accepted LOCATION_UPDATE is written to a
\* customer connection more than once
C5_ExactlyOneDelivery ==
    \A i \in UpdateIds : delivered[i] <= 1

\* C6: when the publish of an authorized LOCATION_UPDATE fails while the
\* mapping's customer has an open connection, the update is still written
\* to that connection
C6_PublishFailureStillForwards ==
    (/\ ret.op \in {"message", "producerSend"}
     /\ ret.val = "publishFailed"
     /\ HasOpenConnection(ret.customer))
        => /\ out # <<>>
           /\ out[1].env.type = "LOCATION_UPDATE"
           /\ out[1].env.payload.coordinates = ret.coordinates

(***************************************************************************)
(* Properties of the order API (OrderSpec)                                 *)
(***************************************************************************)
\* the step is a call of updateOrderStatus, of the service or of the store
UpdateStatusCall ==
    /\ ret = NoTask
    /\ ret'.op \in {"updateOrderStatus", "store.updateOrderStatus"}

\* C7: updateOrderStatus on an orderId without a mapping fails with the
\* not-found error, leaves the store unchanged and writes no envelope
C7_UpdateMissingFails ==
    [][(UpdateStatusCall /\ ~HasMapping(mappings, ret'.orderId)) =>
         /\ ret'.val = "NotFound"
         /\ mappings' = mappings
         /\ out' = <<>>]_vars

\* the service's updateOrderStatus has failed on an order without a mapping
\* while the users of the system were connected
C7_UpdateMissingFailed ==
    /\ ret.op = "updateOrderStatus"
    /\ ret.val = "NotFound"
    /\ ~HasMapping(mappings, ret.orderId)
    /\ \E c \in Customers : HasOpenConnection(c)
    /\ \E d \in Drivers : HasOpenConnection(d)

\* status b is status a or comes after it
StatusForward(a, b) ==
    \/ a = b
    \/ a = "ASSIGNED" /\ b \in {"IN_PROGRESS", "COMPLETED", "CANCELLED"}
    \/ a = "IN_PROGRESS" /\ b \in {"COMPLETED", "CANCELLED"}

\* C8 as stated: the status of an order only moves forward along ASSIGNED,
\* IN_PROGRESS, COMPLETED, or to CANCELLED from a non-terminal status
C8_StatusOnlyForward ==
    [][\A o \in Orders :
         (HasMapping(mappings, o) /\ HasMapping(mappings', o)) =>
            StatusForward(GetOrderMapping(mappings, o).status,
                          GetOrderMapping(mappings', o).status)]_vars

\* the step is an operation that sets the status of an order
StatusCall ==
    /\ ret = NoTask
    /\ ret'.op \in {"assignDriverToOrder", "store.saveOrderMapping",
                    "updateOrderStatus", "store.updateOrderStatus"}

\* C8: the status of an order changes only in assignDriverToOrder, save or
\* updateStatus on that order; assignDriverToOrder and save always leave the
\* status they carry (ASSIGNED for assignDriverToOrder), and updateStatus on
\* an existing mapping always leaves the given status, whatever the status
\* was
C8_StatusSetByOperation ==
    [][/\ \A o \in Orders :
            (/\ HasMapping(mappings', o)
             /\ GetOrderMapping(mappings', o).status
                  # GetOrderMapping(mappings, o).status)
               => (StatusCall /\ ret'.orderId = o)
       /\ (StatusCall /\ ret'.op = "assignDriverToOrder") =>
              ret'.status = "ASSIGNED"
       /\ (StatusCall /\ HasMapping(mappings', ret'.orderId)) =>
              GetOrderMapping(mappings', ret'.orderId).status = ret'.status
       /\ (StatusCall /\ ~HasMapping(mappings', ret'.orderId)) =>
              (UpdateStatusCall /\ ~HasMapping(mappings, ret'.orderId))]_vars

\* updateOrderStatus has moved a COMPLETED order back to ASSIGNED
C8_MovedBackward ==
    /\ ret.op = "updateOrderStatus"
    /\ ret.val = "ok"
    /\ ret.was = "COMPLETED"
    /\ ret.status = "ASSIGNED"
    /\ GetOrderMapping(mappings, ret.orderId).status = "ASSIGNED"

(***************************************************************************)
(* Properties of the registry and the router (RegistrySpec)                *)
(***************************************************************************)
\* C9: the registry holds at most one connection per user identity, and
\* when a connection has just been registered the entry of its identity
\* refers to the new transport
C9_OneConnectionPerUser ==
    /\ \A c1 \in connections, c2 \in connections :
           c1.userId = c2.userId => c1 = c2
    /\ (ret.op = "connection" /\ ret.val = "registered") =>
           /\ HasConnection(connections, ret.user)
           /\ GetConnection(connections, ret.user).ws = ret.sock

\* a connection has just been registered for an identity whose earlier
\* transport is still open
C9_Replaced ==
    /\ ret.op = "connection"
    /\ ret.val = "registered"
    /\ \E s \in ConnIds \ {ret.sock} :
           /\ ssock[s].phase = "ready"
           /\ ssock[s].state = "OPEN"
           /\ ssock[s].user = ret.user

\* C10: sendToUser returns false and writes nothing when the registry has
\* no entry for the user or the entry's transport is not open; otherwise it
\* writes the envelope to the entry's transport and returns true, unless the
\* write throws, which it reports as false
C10_SendToUserResult ==
    ret.op = "sendToUser" =>
        /\ ~HasOpenConnection(ret.user) => (ret.val = "false" /\ out = <<>>)
        /\ (HasOpenConnection(ret.user) /\ ret.status = "written") =>
               /\ ret.val = "true"
               /\ Len(out) = 1
               /\ out[1].to = GetConnection(connections, ret.user).ws
        /\ ret.status = "threw" => (ret.val = "false" /\ out = <<>>)

\* sendToUser has returned false for a user whose registry entry refers to a
\* transport that is no longer open
C10_SentToClosedTransport ==
    /\ ret.op = "sendToUser"
    /\ ret.val = "false"
    /\ ret.status = "written"
    /\ HasConnection(connections, ret.user)
    /\ ~HasOpenConnection(ret.user)


\* the service with an authentication handler and a ping interval
SweepInit ==
    /\ config = [kafka |-> FALSE, auth |-> TRUE]
    /\ ServerStart
    /\ ClientIdle
    /\ CodecIdle

SweepSpec == SweepInit /\ [][SweepNext]_vars


(***************************************************************************)
(* Properties of the liveness sweep (SweepSpec)                            *)
(***************************************************************************)
\* the pings among the writes of a step that went to transport s
PingsTo(writes, s) ==
    Cardinality({i \in 1..Len(writes) :
                    writes[i].to = s /\ writes[i].env.type = "ping"})

\* C11: a liveness sweep closes and removes from the registry every
\* connection whose lastActivity is more than 2 minutes old, so that its
\* user is not among the connected users afterwards; it keeps every other
\* connection, and sends it exactly one ping when its transport is open
C11_SweepEvictsStale ==
    [][(ret = NoTask /\ ret'.op = "pingConnections") =>
         \A c \in connections :
            IF now - c.lastActivity > StaleMinutes
            THEN /\ ~HasConnection(connections', c.userId)
                 /\ ssock'[c.ws].state # "OPEN"
                 /\ PingsTo(out', c.ws) = 0
            ELSE /\ c \in connections'
                 /\ ssock'[c.ws] = ssock[c.ws]
                 /\ PingsTo(out', c.ws) =
                      IF ssock[c.ws].state = "OPEN" THEN 1 ELSE 0]_vars

\* a sweep has evicted a connection and pinged another one, which was
\* active exactly 2 minutes before
C11_Swept ==
    /\ ret.op = "pingConnections"
    /\ ret.val = "evicted"
    /\ \E c \in connections :
          /\ now - c.lastActivity = StaleMinutes
          /\ PingsTo(out, c.ws) = 1
    /\ \E s \in ConnIds : ssock[s].phase = "ready" /\ ssock[s].state = "CLOSING"


\* the service with an authentication handler and without Kafka
TopicSpec == SweepInit /\ [][TopicNext]_vars

(***************************************************************************)
(* Properties of the router by topic (TopicSpec)                           *)
(***************************************************************************)
\* the envelopes among writes that went to transport s
WritesTo(writes, s) ==
    Cardinality({i \in 1..Len(writes) : writes[i].to = s})

\* C12: sendToTopic never raises; it writes the envelope once to every
\* registered connection that is subscribed to the topic and open and whose
\* send does not fail, writes nothing to any other connection, and returns
\* the number of envelopes written
C12_SendToTopicDelivers ==
    ret.op = "sendToTopic" =>
        /\ ret.val = "returned"
        /\ \A c \in connections :
              WritesTo(out, c.ws) =
                 IF c.ws \in Subscribers(ret.topic) \ ret.failed THEN 1 ELSE 0
        /\ ret.count = Len(out)

\* C15: when a CUSTOMER or DRIVER connection has been registered and
\* connection handling is complete, the subscription set of its registry
\* entry holds order:<id> for each of its order mappings, and driver:<id> of
\* the mapping's driver for a customer
C15_AutoSubscribed ==
    (ret.op = "connection" /\ ret.val = "registered") =>
        \A m \in mappings :
           LET subs == GetConnection(connections, ret.user).subscriptions IN
           /\ m.customerId = ret.user =>
                 {OrderTopic(m.orderId), DriverTopic(m.driverId)} \subseteq subs
           /\ m.driverId = ret.user => OrderTopic(m.orderId) \in subs


AuthSpec == SweepInit /\ [][AuthNext]_vars

(***************************************************************************)
(* Properties of authentication (AuthSpec)                                 *)
(***************************************************************************)
\* the registry entries that refer to transport s
EntriesOf(conns, s) == {c \in conns : c.ws = s}

\* the step ends the authentication of a transport without an identity
AuthGaveNoIdentity ==
    /\ ret = NoTask
    /\ ret'.op = "connection"
    /\ ret'.val # "authenticating"
    /\ ret'.user = NULL

\* C13: a connection whose authentication gives no identity is closed with
\* code 4001, is never added to the registry, is never written to (no
\* welcome), and a frame that arrives on it changes nothing
C13_RejectedStaysOut ==
    [][\A s \in ConnIds :
         /\ (AuthGaveNoIdentity /\ ret'.sock = s) =>
               /\ ssock[s].phase = "auth"
               /\ ssock'[s].phase = "rejected"
               /\ ssock'[s].state # "OPEN"
               /\ ret'.code = AuthFailureCode
               /\ connections' = connections
               /\ out' = <<>>
         /\ ssock[s].phase = "rejected" =>
               /\ ssock'[s].phase \in {"rejected", "closed"}
               /\ EntriesOf(connections', s) = {}
               /\ WritesTo(out', s) = 0
               /\ (ret'.op = "message" /\ ret'.sock = s) =>
                     (/\ connections' = connections
                      /\ mappings' = mappings
                      /\ ssock' = ssock
                      /\ out' = <<>>)
         /\ ssock[s].phase = "closed" =>
               /\ ssock'[s] = ssock[s]
               /\ EntriesOf(connections', s) \subseteq EntriesOf(connections, s)
               /\ WritesTo(out', s) = 0]_vars

\* a frame has arrived on a transport that was rejected and is closing,
\* while another connection is registered
C13_FrameOnRejected ==
    /\ ret.op = "message"
    /\ ret.val = "unhandled"
    /\ ssock[ret.sock].phase = "rejected"
    /\ ssock[ret.sock].state = "CLOSING"
    /\ connections # {}

\* C14 as stated: without a token, what verifyToken answers for the request
\* alone decides whether the connection is accepted
C14_VerifyTokenDecides ==
    (ret.op = "connection" /\ ret.val # "authenticating" /\ ~ret.token) =>
        (ret.val = "registered" <=> ret.verified # NULL)

\* C14: with authentication enabled, a request without a token is rejected
\* whatever verifyToken would answer for it; a request with a token is
\* accepted exactly when verifyToken gives an identity
C14_NoTokenRejected ==
    (ret.op = "connection" /\ ret.val # "authenticating") =>
        /\ ~ret.token =>
              (ret.val = "rejected" /\ EntriesOf(connections, ret.sock) = {})
        /\ ret.token => (ret.val = "registered" <=> ret.verified # NULL)

\* a request without a token, which verifyToken would have accepted, has
\* been rejected
C14_NoTokenButVerifiable ==
    /\ ret.op = "connection"
    /\ ret.val = "rejected"
    /\ ~ret.token
    /\ ret.verified \in Users
    /\ ssock[ret.sock].phase = "rejected"


(***************************************************************************)
(* Properties of the order API (OrderSpec), continued                      *)
(***************************************************************************)
\* the transports of the users in seq that have an open connection, in order
RECURSIVE OpenTransports(_)
OpenTransports(users) ==
    IF users = <<>> THEN <<>>
    ELSE (IF HasOpenConnection(Head(users))
          THEN <<GetConnection(connections, Head(users)).ws>> ELSE <<>>)
         \o OpenTransports(Tail(users))

\* C16: assignDriverToOrder(orderId, customerId, driverId) leaves exactly one
\* mapping for orderId, with the given customer and driver and status
\* ASSIGNED, and writes one ORDER_ASSIGNMENT envelope to the customer's
\* connection and one to the driver's, for each of them that is connected
C16_AssignStoresAndNotifies ==
    ret.op = "assignDriverToOrder" =>
        LET to == OpenTransports(<<ret.customer, ret.user>>) IN
        /\ Cardinality({m \in mappings : m.orderId = ret.orderId}) = 1
        /\ GetOrderMapping(mappings, ret.orderId).customerId = ret.customer
        /\ GetOrderMapping(mappings, ret.orderId).driverId = ret.user
        /\ GetOrderMapping(mappings, ret.orderId).status = "ASSIGNED"
        /\ Len(out) = Len(to)
        /\ \A i \in 1..Len(out) :
              /\ out[i].to = to[i]
              /\ out[i].env.type = "ORDER_ASSIGNMENT"
              /\ out[i].env.orderId = ret.orderId
              /\ out[i].env.payload.customerId = ret.customer
              /\ out[i].env.payload.driverId = ret.user
              /\ out[i].env.payload.status = "ASSIGNED"

\* assignDriverToOrder has overwritten the mapping of a completed order,
\* with customer and driver both connected
C16_Reassigned ==
    /\ ret.op = "assignDriverToOrder"
    /\ ret.was = "COMPLETED"
    /\ Len(out) = 2
    /\ \E s \in ConnIds : /\ ssock[s].phase = "ready"
                          /\ ssock[s].user = ret.user
                          /\ ssock[s].state = "OPEN"

\* C17: assignDriverToOrder never fails when the store write succeeds, which
\* the in-memory store's always does: neither an offline recipient nor a
\* failed publish makes it fail, and a failed call has stored no mapping and
\* written no envelope
C17_AssignFailsOnlyOnStore ==
    ret.op = "assignDriverToOrder" =>
        /\ ret.val = "ok"
        /\ ret.val = "error" => (~HasMapping(mappings, ret.orderId) /\ out = <<>>)

\* C18: updateOrderStatus(orderId, status, updatedBy) of the service on an
\* existing mapping succeeds, leaves the given status in the store, and
\* writes one SYSTEM envelope carrying that status to the connection of the
\* mapping's customer and one to that of its driver, for each of them that
\* is connected
C18_UpdateStoresAndNotifies ==
    (ret.op = "updateOrderStatus" /\ ret.was # NULL) =>
        LET m == GetOrderMapping(mappings, ret.orderId)
            to == OpenTransports(<<m.customerId, m.driverId>>)
        IN
        /\ ret.val = "ok"
        /\ HasMapping(mappings, ret.orderId)
        /\ m.status = ret.status
        /\ Len(out) = Len(to)
        /\ \A i \in 1..Len(out) :
              /\ out[i].to = to[i]
              /\ out[i].env.type = "SYSTEM"
              /\ out[i].env.orderId = ret.orderId
              /\ out[i].env.payload.status = ret.status

\* updateOrderStatus has set the status of a completed order while its
\* customer was connected and its driver was not
C18_UpdatedWithDriverOffline ==
    /\ ret.op = "updateOrderStatus"
    /\ ret.val = "ok"
    /\ ret.was = "COMPLETED"
    /\ ret.status = "IN_PROGRESS"
    /\ Len(out) = 1
    /\ HasOpenConnection(GetOrderMapping(mappings, ret.orderId).customerId)
    /\ ~HasConnection(connections, GetOrderMapping(mappings, ret.orderId).driverId)


(***************************************************************************)
(* Properties of the client session (ClientSpec), continued                *)
(***************************************************************************)
\* C19: a timer tick writes exactly one LOCATION_UPDATE frame, carrying the
\* sample current at that tick, when a sample has been received and the
\* transport is open, and writes nothing otherwise; the session keeps no
\* frame for later
C19_TickSendsCurrentSample ==
    [][cret' = "tick" =>
         cout' = IF lastPosition # 0 /\ sock[ws] = "OPEN"
                 THEN <<Frame(ws, "LOCATION_UPDATE", lastPosition)>>
                 ELSE <<>>]_vars

\* after a reconnect, with ticks missed while the transport was closed, a
\* tick has sent the current sample on the new transport
C19_TickAfterReopen ==
    /\ cret = "tick"
    /\ ws = 2
    /\ sock[2] = "OPEN"
    /\ closeReq = "none"
    /\ lastPosition = 2
    /\ cout = <<Frame(2, "LOCATION_UPDATE", 2)>>


\* C20: isTracking stays true when the transport closes and while the
\* session reconnects: only a call of the caller makes it false. When a
\* transport opens while isTracking is true, the handler leaves exactly one
\* position watch and one interval timer armed, without a call of
\* startTracking by the caller
C20_TrackingResumes ==
    [][/\ (isTracking /\ ~isTracking') => cret' = "this"
       /\ (isTracking /\ cret' \in {"onclose", "reconnect"}) => isTracking'
       /\ (isTracking /\ cret' = "onopen") =>
             /\ isTracking'
             /\ watchId' /\ watches' = 1
             /\ intervalId' /\ intervals' = 1]_vars

\* the second transport has opened while tracking was active, and the
\* watch and the timer are armed
C20_ResumedOnReopen ==
    /\ cret = "onopen"
    /\ ws = 2
    /\ sock[2] = "OPEN"
    /\ closeReq = "none"
    /\ isTracking
    /\ watches = 1
    /\ intervals = 1
    /\ cout = <<Frame(2, "IDENTIFY", 0)>>


\* C21: whatever the sequence of startTracking, stopTracking, open and close
\* events, at most one position watch and at most one interval timer are
\* active, and they are the ones watchId and intervalId refer to
C21_OneWatchOneTimer ==
    /\ watches = (IF watchId THEN 1 ELSE 0)
    /\ intervals = (IF intervalId THEN 1 ELSE 0)

\* startTracking has returned on a session that tracks over its second
\* transport, with a sample received
C21_StartedAgain ==
    /\ cret = "this"
    /\ isTracking
    /\ ws = 2
    /\ sock[2] = "OPEN"
    /\ lastPosition # 0
    /\ watches = 1
    /\ intervals = 1


\* C22: whenever the transport is not open, sendMessage returns false and
\* writes nothing
C22_SendMessageFailsClosed ==
    (cret \in {"true", "false"} /\ sock[ws] # "OPEN") =>
        (cret = "false" /\ cout = <<>>)


\* C23: reconnectAttempts stays between 0 and maxReconnectAttempts, and is
\* 0 when a transport has just opened
C23_ReconnectAttemptsBounded ==
    /\ reconnectAttempts \in 0..maxReconnectAttempts
    /\ cret = "onopen" => reconnectAttempts = 0

\* the third transport has opened, after two failed attempts, and the
\* counter is back to 0
C23_ResetOnOpen ==
    /\ cret = "onopen"
    /\ ~(\E s \in 1..2 : sock[s] # "CLOSED")
    /\ ws = 3
    /\ sock[3] = "OPEN"
    /\ closeReq = "none"
    /\ reconnectAttempts = 0


\* the transports of the session that were created and have not fully closed
LiveTransports == {s \in SockIds : sock[s] \in {"CONNECTING", "OPEN", "CLOSING"}}

\* C24: at any time the session has at most one pending reconnect wait or
\* one transport that has not fully closed, never both and never two
C24_OneAttemptAtATime ==
    timers + Cardinality(LiveTransports) <= 1

\* closeConnection was called on the second transport, which has closed,
\* and the reconnect it scheduled is pending: nothing else is alive
C24_PendingAfterClose ==
    /\ cret = "onclose"
    /\ closeReq = "called"
    /\ ws = 2
    /\ timers = 1
    /\ LiveTransports = {}


\* C25: when a transport closes with the reconnect attempts exhausted, no
\* reconnect is scheduled and the caller is handed an outcome other than
\* that of an ordinary close; from then on no transport is opened
C25_ExhaustionReported ==
    [][/\ \A s \in SockIds :
            (sock[s] # "CLOSED" /\ sock'[s] = "CLOSED" /\ ~ShouldReconnect) =>
               (timers' = 0 /\ cret' # CloseReport(FALSE))
       /\ (timers = 0 /\ LiveTransports = {}) => (ws' = ws /\ timers' = 0)]_vars


\* the step handled a LOCATION_UPDATE frame of a sender that is no driver,
\* or without orderId or coordinates, or for an order without a mapping
DroppedUpdate ==
    /\ ret'.op = "message"
    /\ ret'.type = "LOCATION_UPDATE"
    /\ \/ ssock[ret'.sock].role # "DRIVER"
       \/ ret'.orderId = NULL
       \/ ret'.coordinates = 0
       \/ ~HasMapping(mappings, ret'.orderId)

\* C30: a LOCATION_UPDATE from a connection whose role is not DRIVER, or for
\* an order without a mapping, or without orderId or coordinates, is
\* dropped: nothing is written to any transport (no forward, no error to
\* the sender, no close), nothing is handed to the producer, and the store
\* is left as it was
C30_DroppedWithoutEffect ==
    [][DroppedUpdate =>
         /\ out' = <<>>
         /\ delivered' = delivered
         /\ pendingLoc' = pendingLoc
         /\ kafkaLog' = kafkaLog
         /\ mappings' = mappings
         /\ ssock' = ssock
         /\ ret'.val \in {"ignored", "invalid"}]_vars

C30_CustomerUpdateDropped ==
    /\ ret.op = "message"
    /\ ret.type = "LOCATION_UPDATE"
    /\ ret.val = "ignored"
    /\ ssock[ret.sock].role = "CUSTOMER"
    /\ ret.coordinates # 0
    /\ HasMapping(mappings, ret.orderId)
    /\ GetOrderMapping(mappings, ret.orderId).customerId = ret.user
    /\ HasOpenConnection(ret.user)
    /\ out = <<>>

(***************************************************************************)
(* The client session and the relay, end to end                            *)
(***************************************************************************)
\* the keys of the JSON objects the client session itself encodes:
\* locationData of the interval callback and the identification of onopen
FrameKeys(type) ==
    IF type = "LOCATION_UPDATE"
    THEN {"type", "clientId", "coords", "timestamp", "deviceTimestamp"}
    ELSE {"type", "clientId", "clientType", "timestamp"}

\* what the server reads in a frame of the client session: parseMessage
\* wants type, senderId and senderRole, handleLocationUpdate wants orderId
\* and payload.coordinates; neither frame has an orderId
ReceivedFrame(f) ==
    [type           |-> f.type,
     wellFormed     |-> {"type", "senderId", "senderRole"} \subseteq FrameKeys(f.type),
     orderId        |-> NULL,
     hasCoordinates |-> "payload" \in FrameKeys(f.type),
     action         |-> NULL,
     listed         |-> FALSE,
     topics         |-> {}]

\* ws.on("message") of transport s for the frame the session wrote last
Receive(s) ==
    /\ cout # <<>>
    /\ cout[1].type \in {"LOCATION_UPDATE", "IDENTIFY"}
    /\ Message(s, ReceivedFrame(cout[1]))

EndToEndNext ==
    \/ Idle /\ (\E s \in ConnIds : Connect(s)) /\ UNCHANGED <<cvars, codec>>
    \/ Idle /\ (\E s \in ConnIds, u \in Users : AuthDone(s, TRUE, u))
            /\ UNCHANGED <<cvars, codec>>
    \/ Idle /\ (\E o \in Orders, c \in Customers, d \in Drivers :
                  AssignDriverToOrder(o, c, d, TRUE)) /\ UNCHANGED <<cvars, codec>>
    \/ Idle /\ (\E s \in ConnIds : Receive(s)) /\ UNCHANGED <<cvars, codec>>
    \/ EndOfTask /\ UNCHANGED <<cvars, codec>>
    \/ Idle /\ (\E s \in SockIds : OnOpen(s)) /\ UNCHANGED <<svars, codec>>
    \/ Idle /\ StartTracking /\ UNCHANGED <<svars, codec>>
    \/ Idle /\ (\E p \in 1..MaxSample : PositionCallback(p)) /\ UNCHANGED <<svars, codec>>
    \/ Idle /\ Tick /\ UNCHANGED <<svars, codec>>

\* the service without Kafka and one client session
EndToEndSpec == SweepInit /\ [][EndToEndNext]_vars

\* C26: a LOCATION_UPDATE frame written by the interval callback of the
\* client session and received on a connection authenticated as the driver
\* assigned to an order passes parseMessage and the checks of
\* handleLocationUpdate and is forwarded to the customer of that order
C26_TickForwarded ==
    \A m \in mappings :
        (/\ ret.op = "message"
         /\ ret.type = "LOCATION_UPDATE"
         /\ cret = "tick"
         /\ RoleOf(ret.user) = "DRIVER"
         /\ m.driverId = ret.user) =>
            (ret.val = "forwarded" /\ ret.customer = m.customerId)


(***************************************************************************)
(* The message codec on its own                                            *)
(***************************************************************************)
CodecNext ==
    \/ CreateMessageCall /\ UNCHANGED <<cvars, svars>>
    \/ Stringify /\ UNCHANGED <<cvars, svars>>
    \/ ParseMessageCall /\ UNCHANGED <<cvars, svars>>

CodecStart == ClientIdle /\ ServerIdle /\ CodecInit

CodecSpec == CodecStart /\ [][CodecNext]_vars

\* an envelope with type, senderId and senderRole
Valid(e) == ~Falsy(e.type) /\ ~Falsy(e.senderId) /\ ~Falsy(e.senderRole)

\* reading any field of a gives what reading it of b gives
SameFields(a, b) ==
    /\ Read(a.type) = Read(b.type)
    /\ Read(a.senderId) = Read(b.senderId)
    /\ Read(a.senderRole) = Read(b.senderRole)
    /\ Read(a.recipientId) = Read(b.recipientId)
    /\ Read(a.recipientRole) = Read(b.recipientRole)
    /\ Read(a.orderId) = Read(b.orderId)
    /\ Read(a.timestamp) = Read(b.timestamp)
    /\ Read(a.payload.is) = Read(b.payload.is)
    /\ Read(a.payload.coordinates) = Read(b.payload.coordinates)
    /\ Read(a.payload.metadata) = Read(b.payload.metadata)

WellFormed(text) ==
    /\ text.syntax = "json"
    /\ text.value = "object"
    /\ Valid(text.obj)

\* the text is not JSON, or not an object with the three required keys
Malformed(text) ==
    \/ text.syntax # "json"
    \/ text.value # "object"
    \/ Missing \in {text.obj.type, text.obj.senderId, text.obj.senderRole}

RecognizedTypes ==
    {"LOCATION_UPDATE", "ORDER_ASSIGNMENT", "SUBSCRIPTION", "AUTHENTICATION",
     "SYSTEM"}

\* C28: parseMessage fails on a text that is not JSON, or whose value lacks
\* type, senderId or senderRole, and it succeeds, keeping the type, on an
\* envelope with the three of them whose type is none of the known ones
C28_DecodeFailsOrKeepsType ==
    codec.step \in {"decoded", "decodedRaw"} =>
        /\ Malformed(codec.text) => ~codec.result.ok
        /\ (WellFormed(codec.text) /\ codec.text.obj.type \notin RecognizedTypes)
              => (codec.result.ok
                  /\ codec.result.message.type = codec.text.obj.type)

C28_UnknownTypeDecoded ==
    /\ codec.step = "decoded"
    /\ codec.text.obj.type = "PING"
    /\ codec.result.ok
    /\ codec.result.message.type = "PING"


(***************************************************************************)
(* The order mapping store as time passes                                  *)
(***************************************************************************)
StoreNext ==
    \/ Idle /\ (\E o \in Orders, c \in Customers, d \in Drivers,
                   st \in Statuses, at \in 0..MaxTime :
                  SaveOrderMapping(o, c, d, st, at)) /\ UNCHANGED <<cvars, codec>>
    \/ Idle /\ (\E o \in Orders, st \in Statuses : StoreUpdate(o, st))
            /\ UNCHANGED <<cvars, codec>>
    \/ Idle /\ (\E o \in Orders, c \in Customers, d \in Drivers :
                  AssignDriverToOrder(o, c, d, TRUE)) /\ UNCHANGED <<cvars, codec>>
    \/ Idle /\ (\E o \in Orders : DeleteOrderMapping(o))
            /\ UNCHANGED <<cvars, codec>>
    \/ Idle /\ ClockTick /\ UNCHANGED <<cvars, codec>>
    \/ EndOfTask /\ UNCHANGED <<cvars, codec>>

StoreSpec == SweepInit /\ [][StoreNext]_vars

\* saveOrderMapping has just returned
SaveCall == ret.op = "store.saveOrderMapping"

\* the store has at most one mapping for each order
OnePerOrder ==
    \A o \in Orders : Cardinality({m \in mappings : m.orderId = o}) <= 1

\* getOrderMapping gives the saved order, customer, driver and status
SavedFields(m) ==
    /\ HasMapping(mappings, ret.orderId)
    /\ m.orderId = ret.orderId
    /\ m.customerId = ret.customer
    /\ m.driverId = ret.user
    /\ m.status = ret.status

\* C29 as stated: after saveOrderMapping(mapping), getOrderMapping of its
\* orderId gives the same orderId, customerId, driverId and status with
\* updatedAt >= createdAt, and the store never has two mappings of an order
C29_SavedThenRead ==
    /\ OnePerOrder
    /\ SaveCall =>
         LET m == GetOrderMapping(mappings, ret.orderId) IN
         SavedFields(m) /\ m.updatedAt >= m.createdAt

\* C29: after saveOrderMapping(mapping), getOrderMapping of its orderId
\* gives the same orderId, customerId, driverId and status with updatedAt
\* the time of the save, which is >= createdAt when the mapping's createdAt
\* is not later than the save; the store never has two mappings of an order
C29_SavedAtTimeOfSave ==
    /\ OnePerOrder
    /\ SaveCall =>
         LET m == GetOrderMapping(mappings, ret.orderId) IN
         /\ SavedFields(m)
         /\ m.updatedAt = now
         /\ m.createdAt <= now => m.updatedAt >= m.createdAt

C29_SavedOverOlder ==
    /\ SaveCall
    /\ ret.was # NULL
    /\ now = 2
    /\ GetOrderMapping(mappings, ret.orderId).createdAt = 1
    /\ GetOrderMapping(mappings, ret.orderId).updatedAt = 2


(***************************************************************************)
(* Inbound frames and the subscription sets                                *)
(***************************************************************************)
\* SUBSCRIPTION frames of every kind: without senderId or senderRole, with
\* an action that is neither subscribe nor unsubscribe, with topics that is
\* not an array
InboundSubscriptionFrames ==
    [type : {"SUBSCRIPTION"}, wellFormed : BOOLEAN, orderId : {NULL},
     hasCoordinates : {FALSE},
     action : {"subscribe", "unsubscribe", "other"},
     listed : BOOLEAN, topics : {Topics, {DriverTopic("D1")}}]

SubscriptionNext ==
    \/ Idle /\ (\E s \in ConnIds : Connect(s)) /\ UNCHANGED <<cvars, codec>>
    \/ Idle /\ (\E s \in ConnIds, u \in Users : AuthDone(s, TRUE, u))
            /\ UNCHANGED <<cvars, codec>>
    \/ Idle /\ (\E s \in ConnIds : SocketClose(s)) /\ UNCHANGED <<cvars, codec>>
    \/ Idle /\ (\E s \in ConnIds, f \in InboundSubscriptionFrames :
                  Message(s, f)) /\ UNCHANGED <<cvars, codec>>
    \/ EndOfTask /\ UNCHANGED <<cvars, codec>>

SubscriptionSpec == SweepInit /\ [][SubscriptionNext]_vars

\* the step handled a frame that parseMessage rejects
InvalidFrame == ret'.op = "message" /\ ~ret'.frame.wellFormed

\* the registry after the step is the registry before it, but for the
\* lastActivity of the entry of transport s, which is the time of the step
OnlyTouched(s) ==
    connections' =
        {IF c.ws = s THEN [c EXCEPT !.lastActivity = now] ELSE c :
            c \in connections}

\* C31: a frame that fails parseMessage refreshes lastActivity of its
\* connection and does nothing else: no handler of the relay runs, no
\* subscription set changes, nothing is written, and the connection stays
\* registered with its transport as it was
C31_InvalidFrameOnlyTouches ==
    [][InvalidFrame =>
         /\ OnlyTouched(ret'.sock)
         /\ ret'.val = "invalid"
         /\ out' = <<>>
         /\ ssock' = ssock
         /\ pendingLoc' = pendingLoc
         /\ nextUpdate' = nextUpdate
         /\ mappings' = mappings]_vars

C31_InvalidSubscribeTouched ==
    /\ ret.op = "message"
    /\ ret.val = "invalid"
    /\ ret.frame.action = "subscribe"
    /\ ret.frame.listed
    /\ now = 1
    /\ ssock[ret.sock].state = "OPEN"
    /\ \E c \in connections :
         c.ws = ret.sock /\ c.lastActivity = 1 /\ c.subscriptions = {}


\* the subscription set handleSubscription leaves for a frame that passed
\* parseMessage: the listed topics added or removed, or the set as it was
Expected(f, subs) ==
    IF f.listed /\ f.action = "subscribe" THEN subs \cup f.topics
    ELSE IF f.listed /\ f.action = "unsubscribe" THEN subs \ f.topics
    ELSE subs

\* C32: the subscription set of a registered connection changes only in
\* the step that handles a valid SUBSCRIPTION frame on its transport:
\* subscribe adds the listed topics, unsubscribe removes them, another
\* action or topics that is not an array leaves the set as it was; the sets
\* of the other connections stay as they were
C32_SubscriptionsByFrameOnly ==
    [][\A c \in connections : \A d \in connections' :
          (d.userId = c.userId /\ d.ws = c.ws) =>
             d.subscriptions =
                IF /\ ret'.op = "message"
                   /\ ret'.sock = c.ws
                   /\ ret'.frame.wellFormed
                   /\ ret'.frame.type = "SUBSCRIPTION"
                THEN Expected(ret'.frame, c.subscriptions)
                ELSE c.subscriptions]_vars

C32_UnsubscribedOne ==
    /\ ret.op = "message"
    /\ ret.val # "invalid"
    /\ ret.frame.action = "unsubscribe"
    /\ ret.frame.listed
    /\ ret.frame.topics = {DriverTopic("D1")}
    /\ \E c \in connections : c.ws = ret.sock /\ c.subscriptions = Topics
    /\ \E c \in connections :
         c.ws # ret.sock /\ c.subscriptions = {DriverTopic("D1")}


\* C33: when a connection is registered, no SUBSCRIPTION envelope is sent
\* for the topic of an order whose mapping is COMPLETED or CANCELLED
C33_OnlyOpenOrdersSubscribed ==
    (ret.op = "connection" /\ ret.val = "registered") =>
        \A i \in 1..Len(out) : \A m \in mappings :
            (/\ out[i].env.type = "SUBSCRIPTION"
             /\ \E j \in 1..Len(out[i].env.payload.topics) :
                  out[i].env.payload.topics[j] = OrderTopic(m.orderId))
               => m.status \notin {"COMPLETED", "CANCELLED"}


(***************************************************************************)
(* More properties of the client session (ClientSpec)                      *)
(***************************************************************************)
\* the identification of the session on transport s
Identify(s) ==
    [sock |-> s, type |-> "IDENTIFY", clientId |-> clientId, pos |-> 0]

\* C34: the step in which a transport opens writes exactly the IDENTIFY
\* frame on it, with the clientId of the session, which never changes; no
\* frame is written on a transport before that step, and no IDENTIFY frame
\* is written in any other step
C34_IdentifyFirstAndStable ==
    [][/\ clientId' = clientId
       /\ \A s \in SockIds :
            (sock[s] = "CONNECTING" /\ sock'[s] = "OPEN") =>
               cout' = <<Identify(s)>>
       /\ \A i \in 1..Len(cout') :
            (sock[cout'[i].sock] # "OPEN" \/ cout'[i].type = "IDENTIFY") =>
               (/\ sock[cout'[i].sock] = "CONNECTING"
                /\ sock'[cout'[i].sock] = "OPEN"
                /\ cout'[i] = Identify(cout'[i].sock))]_vars

C34_IdentifiedOnReopen ==
    /\ cret = "onopen"
    /\ ws = 2
    /\ sock[1] = "CLOSED"
    /\ sock[2] = "OPEN"
    /\ isTracking
    /\ intervals = 1
    /\ lastPosition # 0
    /\ clientId = "client_0_a"
    /\ cout = <<Identify(2)>>


\* C35: lastPosition changes only in the success callback of watchPosition;
\* startTracking, stopTracking, closeConnection, sendMessage, the interval
\* callback and the open and close events leave it as it is
C35_LastPositionSingleWriter ==
    [][lastPosition' # lastPosition => cret' = "position"]_vars

C35_SampleKeptAfterStop ==
    /\ cret = "this"
    /\ ~isTracking
    /\ watches = 0
    /\ intervals = 0
    /\ lastPosition = 2


(***************************************************************************)
(* Shutdown of the registry                                                *)
(***************************************************************************)
ShutdownNext ==
    \/ Idle /\ (\E s \in ConnIds : Connect(s)) /\ UNCHANGED <<cvars, codec>>
    \/ Idle /\ (\E s \in ConnIds, u \in Users : AuthDone(s, TRUE, u))
            /\ UNCHANGED <<cvars, codec>>
    \/ Idle /\ (\E s \in ConnIds : SocketClose(s)) /\ UNCHANGED <<cvars, codec>>
    \/ Idle /\ ClockTick /\ UNCHANGED <<cvars, codec>>
    \/ Idle /\ (\E q \in UNION {IterationOrders(S) : S \in SUBSET connections} :
                  PingConnections(q)) /\ UNCHANGED <<cvars, codec>>
    \/ Idle /\ Stop /\ UNCHANGED <<cvars, codec>>
    \/ EndOfTask /\ UNCHANGED <<cvars, codec>>

ShutdownSpec == SweepInit /\ [][ShutdownNext]_vars

\* C36: stop() closes the transport of every registered connection and
\* ends the liveness sweep: no sweep runs after it, and once no transport
\* is left closing (the close events are delivered) the registry is empty
C36_ShutdownEmptiesRegistry ==
    [][/\ ret'.op = "stop" =>
            (/\ ~serverOpen'
             /\ \A c \in connections : ssock'[c.ws].state # "OPEN")
       /\ ~serverOpen => ret'.op # "pingConnections"
       /\ (~serverOpen' /\ \A s \in ConnIds : ssock'[s].state # "CLOSING")
             => connections' = {}]_vars


\* the entry c of the registry is gone after the step: no entry of that user
\* refers to that transport
Removed(c) ==
    ~\E d \in connections' : d.userId = c.userId /\ d.ws = c.ws

\* C37: a registry entry goes only with the close event of the transport it
\* refers to, with its eviction by the sweep, or when a new connection of the
\* same user takes its place; the close event of a transport that a newer
\* connection has superseded leaves the newer entry in the registry
C37_RemovedByOwnTransportOnly ==
    [][\A c \in connections :
          Removed(c) =>
             \/ ret'.op = "close" /\ ret'.sock = c.ws
             \/ ret'.op = "pingConnections" /\ Stale(c)
             \/ ret'.op = "connection" /\ ret'.user = c.userId]_vars


\* C38: every LOCATION_UPDATE envelope a task writes goes to the transport
\* of the customer of the order's mapping and names as sender the driver of
\* that mapping, as the store has them when the envelope is written, on the
\* direct path and on the path through the consumer
C38_DeliveredPerCurrentMapping ==
    \A i \in 1..Len(out) :
        out[i].env.type = "LOCATION_UPDATE" =>
            LET m == GetOrderMapping(mappings, out[i].env.orderId) IN
            /\ HasMapping(mappings, out[i].env.orderId)
            /\ \E c \in connections :
                 c.ws = out[i].to /\ c.userId = m.customerId
            /\ out[i].env.senderId = m.driverId


\* C39: lastActivity of a registered connection changes only in the step
\* that handles a message frame on its transport, not when a pong arrives;
\* and a sweep removes every entry whose lastActivity is more than the
\* threshold old, so that a connection that only answers pings is evicted
\* by the first sweep later than the threshold after it connected
C39_OnlyMessagesRefresh ==
    [][/\ \A c \in connections : \A d \in connections' :
            (d.userId = c.userId /\ d.ws = c.ws
               /\ d.lastActivity # c.lastActivity) =>
                  (ret'.op = "message" /\ ret'.sock = c.ws)
       /\ ret'.op = "pingConnections" =>
            \A c \in connections :
               now - c.lastActivity > StaleMinutes => Removed(c)]_vars

C39_EvictedThoughOpen ==
    /\ ret.op = "pingConnections"
    /\ ret.val = "evicted"
    /\ now = StaleMinutes + 1
    /\ connections = {}
    /\ \E s \in ConnIds : ssock[s].phase = "ready" /\ ssock[s].state = "CLOSING"


\* C40: whatever maxReconnectAttempts the caller configured, 0 included,
\* the reconnects the session has made since its last open (those scheduled
\* less those still pending) never exceed the configured number
C40_AttemptsWithinConfigured ==
    reconnectAttempts - timers <= maxReconnectOption

====
